---- MODULE Spec2Model ----
(***************************************************************************)
(* The sync orchestrator of servers/src/grin/sync/syncer.rs (SyncRunner)   *)
(* as a state machine: the peer wait, the main loop with its header-lock   *)
(* backoff and its three stage delegates, and needs_syncing.               *)
(*                                                                         *)
(* The orchestrator is one thread.  Its position is pc; its locals are the *)
(* variables that carry the source's names.  What the chain store, the    *)
(* peer set and the delegates answer is drawn afresh at every call.        *)
(***************************************************************************)
EXTENDS Integers, Sequences, FiniteSets, TLC

VARIABLES
    pc,                     \* position of the sync thread
    stop_state,             \* StopState::is_stopped()
    sync_status,            \* SyncState::status(), payloads dropped
    w,                      \* locals of wait_for_min_peers
    highest_height,         \* sync_loop local
    header_block_counter,   \* sync_loop local
    try_smart_sync,         \* sync_loop local
    it,                     \* what the current main-loop iteration has done
    call,                   \* arguments of a function applied on its own
    ret,                    \* its result
    absent_run              \* history: absent answers of try_header_head since
                            \* the header head was last obtained

vars == <<pc, stop_state, sync_status, w, highest_height,
          header_block_counter, try_smart_sync, it, call, ret, absent_run>>

-----------------------------------------------------------------------------
(* Bounds of the model *)

\* local total difficulties are 0..MaxLocalDiff
MaxLocalDiff == 1
\* peer total difficulties are 0..MaxPeerDiff
MaxPeerDiff == 7
\* block heights are 0..MaxHeight
MaxHeight == 1
\* chain.difficulty_iter() yields at most MaxIterLen records
MaxIterLen == 6
\* the same two where the main loop calls needs_syncing: all that the loop
\* reads is the result of the call
MaxLoopPeerDiff == 2
MaxLoopIterLen == 1
\* more_or_same_work_peers() answers 0..MaxPeers
MaxPeers == 4
\* polls of the peer wait the model follows
MaxWaitPolls == 32
\* absent_run counts up to MaxAbsentRun, which stands for "or more"
MaxAbsentRun == 62
\* the emission walks start in the groups 1..MaxEpoch
MaxEpoch == 34
\* blocks of a walk that starts in one of these groups
WalkLen == 4
\* blocks of the walk that starts at the genesis block
GenesisWalk == 8642

-----------------------------------------------------------------------------
(* Program constants *)

\* syncer.rs:88
MIN_PEERS == 3
\* syncer.rs:80
WAIT_SECS_AWAITING == 30
\* syncer.rs:82
WAIT_SECS_OTHER == 3
\* syncer.rs:237
HEADER_LOCK_RETRIES == 60
\* syncer.rs:398
THRESHOLD_BLOCKS == 5

-----------------------------------------------------------------------------
(* SyncStatus *)

TxHashsetPhases ==
    {"TxHashsetDownload", "TxHashsetSetup", "TxHashsetRangeProofsValidation",
     "TxHashsetKernelsValidation", "TxHashsetSave", "TxHashsetDone"}

SyncStatus ==
    {"AwaitingPeers_true", "AwaitingPeers_false", "NoSync", "HeaderSync",
     "BodySync", "Shutdown"} \cup TxHashsetPhases

\* SyncState::is_syncing(): every status but NoSync counts as syncing
IsSyncing(s) == s # "NoSync"

-----------------------------------------------------------------------------
(* Values the collaborators answer *)

Err == [ok |-> FALSE, v |-> 0]
Ok(x) == [ok |-> TRUE, v |-> x]

Heights == 0..MaxHeight

\* chain.head(): Result<Tip>; of the tip only total_difficulty is read
HeadResults == {Err} \cup {Ok(d) : d \in 0..MaxLocalDiff}

NoPeer == [some |-> FALSE, total_difficulty |-> 0, height |-> 0]
\* peers.most_work_peer(): Option<peer>, with info.total_difficulty(), info.height()
PeerOptions(max) ==
    {NoPeer} \cup
    [some : {TRUE}, total_difficulty : 0..max, height : Heights]

RECURSIVE SeqsUpTo(_, _)
SeqsUpTo(S, n) ==
    IF n = 0 THEN {<<>>}
    ELSE LET shorter == SeqsUpTo(S, n - 1)
         IN  shorter \cup {Append(s, x) : s \in {t \in shorter : Len(t) = n - 1}, x \in S}

\* difficulties of single blocks: where needs_syncing is applied on its own,
\* and where the main loop calls it
BlockDiffs == {1, 2}
LoopBlockDiffs == {1}

\* chain.difficulty_iter(): Result<iterator>, the difficulties newest block first
IterErr == [ok |-> FALSE, v |-> <<>>]
DiffIters(S, len) == {IterErr} \cup {Ok(s) : s \in SeqsUpTo(S, len)}

-----------------------------------------------------------------------------
(* needs_syncing, syncer.rs:360-418 *)

RECURSIVE SumSeq(_)
SumSeq(s) == IF s = <<>> THEN 0 ELSE Head(s) + SumSeq(Tail(s))

\* Iterator::take(n)
Take(s, n) == SubSeq(s, 1, IF Len(s) < n THEN Len(s) ELSE n)

\* the threshold of syncer.rs:387-400: the sum of the first (newest) five
\* difficulties the iterator yields
Threshold(diffs) == SumSeq(Take(diffs, THRESHOLD_BLOCKS))

NsErr == [ok |-> FALSE, is_syncing |-> FALSE, height |-> 0, total_difficulty |-> 0]
NsOk(b, h, d) == [ok |-> TRUE, is_syncing |-> b, height |-> h, total_difficulty |-> d]

\* needs_syncing entering sync at the threshold itself (>= for >)
NeedsSyncingAtThreshold(is_syncing, head1, peer, head2, diff_iter) ==
    IF ~head1.ok THEN NsErr
    ELSE IF ~peer.some THEN NsOk(FALSE, 0, 0)
    ELSE IF is_syncing
    THEN IF peer.total_difficulty <= head1.v
         THEN IF ~head2.ok THEN NsErr
              ELSE NsOk(FALSE, peer.height, peer.total_difficulty)
         ELSE NsOk(TRUE, peer.height, peer.total_difficulty)
    ELSE IF ~diff_iter.ok THEN NsOk(FALSE, 0, 0)
    ELSE NsOk(peer.total_difficulty >= head1.v + Threshold(diff_iter.v),
              peer.height, peer.total_difficulty)

\* needs_syncing leaving sync only once the peer is strictly behind (< for <=)
NeedsSyncingStrictExit(is_syncing, head1, peer, head2, diff_iter) ==
    IF ~head1.ok THEN NsErr
    ELSE IF ~peer.some THEN NsOk(FALSE, 0, 0)
    ELSE IF is_syncing
    THEN IF peer.total_difficulty < head1.v
         THEN IF ~head2.ok THEN NsErr
              ELSE NsOk(FALSE, peer.height, peer.total_difficulty)
         ELSE NsOk(TRUE, peer.height, peer.total_difficulty)
    ELSE IF ~diff_iter.ok THEN NsOk(FALSE, 0, 0)
    ELSE NsOk(peer.total_difficulty > head1.v + Threshold(diff_iter.v),
              peer.height, peer.total_difficulty)

\* is_syncing: sync_state.is_syncing(); head1, head2: the two chain.head()
\* answers; peer: most_work_peer(); diff_iter: chain.difficulty_iter()
NeedsSyncing(is_syncing, head1, peer, head2, diff_iter) ==
    IF ~head1.ok THEN NsErr
    ELSE IF ~peer.some THEN NsOk(FALSE, 0, 0)
    ELSE IF is_syncing
    THEN IF peer.total_difficulty <= head1.v
         THEN IF ~head2.ok THEN NsErr
              ELSE NsOk(FALSE, peer.height, peer.total_difficulty)
         ELSE NsOk(TRUE, peer.height, peer.total_difficulty)
    ELSE IF ~diff_iter.ok THEN NsOk(FALSE, 0, 0)
    ELSE NsOk(peer.total_difficulty > head1.v + Threshold(diff_iter.v),
              peer.height, peer.total_difficulty)

-----------------------------------------------------------------------------
(* wait_for_min_peers, syncer.rs:75-112 *)

\* peers.more_or_same_work_peers(): Result<usize>
WorkPeerResults == {Err} \cup {Ok(c) : c \in 0..MaxPeers}

\* no answer of more_or_same_work_peers() is at hand
NoPoll == [ok |-> FALSE, v |-> -1]

\* the locals of wait_for_min_peers once it has returned
WaitOver ==
    [wait_secs |-> 0, head_difficulty |-> 0, n |-> 0, production |-> FALSE,
     wp |-> NoPoll, enough_outbound |-> FALSE]

\* syncer.rs:79-83
WaitSecs(status) ==
    IF status = "AwaitingPeers_true" THEN WAIT_SECS_AWAITING ELSE WAIT_SECS_OTHER

\* the peer-count exit taking MIN_PEERS itself as enough (>= for >)
WaitExitAtMinPeers(wp, enough_outbound, head_difficulty, n, wait_secs, production) ==
    /\ \/ wp >= MIN_PEERS
       \/ (wp = 0 /\ enough_outbound /\ head_difficulty > 0)
       \/ n > wait_secs
    /\ (wp > 0 \/ ~production)

\* the timeout taken one poll early (>= for >)
WaitExitTimeoutEarly(wp, enough_outbound, head_difficulty, n, wait_secs, production) ==
    /\ \/ wp > MIN_PEERS
       \/ (wp = 0 /\ enough_outbound /\ head_difficulty > 0)
       \/ n >= wait_secs
    /\ (wp > 0 \/ ~production)

\* syncer.rs:98-107: whether the poll leaves the wait loop
WaitExit(wp, enough_outbound, head_difficulty, n, wait_secs, production) ==
    /\ \/ wp > MIN_PEERS
       \/ (wp = 0 /\ enough_outbound /\ head_difficulty > 0)
       \/ n > wait_secs
    /\ (wp > 0 \/ ~production)

\* syncer.rs:79-87: wait_secs from the status, head = chain.head()?, n = 0.
\* An error of chain.head() ends the wait (it is logged at syncer.rs:136-138).
WaitStart ==
    /\ pc = "start"
    /\ \E head \in HeadResults :
          IF head.ok
          THEN /\ pc' = "wait"
               /\ w' = [w EXCEPT !.wait_secs = WaitSecs(sync_status),
                                 !.head_difficulty = head.v, !.n = 0]
          ELSE /\ pc' = "loop"
               /\ w' = WaitOver
    /\ UNCHANGED <<stop_state, sync_status, highest_height,
                   header_block_counter, try_smart_sync, it, call, ret, absent_run>>

\* syncer.rs:90-92: the stop flag ends the wait
WaitStopped ==
    /\ pc = "wait"
    /\ stop_state
    /\ pc' = "loop"
    /\ w' = WaitOver
    /\ UNCHANGED <<stop_state, sync_status, highest_height,
                   header_block_counter, try_smart_sync, it, call, ret, absent_run>>

\* syncer.rs:93: the poll of the peer set: more_or_same_work_peers() and,
\* for the second exit condition, enough_outbound_peers(). The model follows
\* MaxWaitPolls sleeps: after that many only the answers that end the wait
\* are drawn.
WaitPoll ==
    /\ pc = "wait"
    /\ ~stop_state
    /\ \E wp \in WorkPeerResults, enough_outbound \in BOOLEAN :
          /\ \/ w.n < MaxWaitPolls
             \/ ~wp.ok
             \/ WaitExit(wp.v, enough_outbound, w.head_difficulty, w.n,
                         w.wait_secs, w.production)
          /\ w' = [w EXCEPT !.wp = wp, !.enough_outbound = enough_outbound]
    /\ pc' = "polled"
    /\ UNCHANGED <<stop_state, sync_status, highest_height,
                   header_block_counter, try_smart_sync, it, call, ret, absent_run>>

\* syncer.rs:93-109: an error of the poll (the ? of line 93) or an exit
\* condition ends the wait; otherwise the thread sleeps one second, counts it
\* and polls again
WaitDecide ==
    /\ pc = "polled"
    /\ IF ~w.wp.ok
          \/ WaitExit(w.wp.v, w.enough_outbound, w.head_difficulty, w.n,
                      w.wait_secs, w.production)
       THEN /\ pc' = "loop"
            /\ w' = WaitOver
       ELSE /\ pc' = "wait"
            /\ w' = [w EXCEPT !.n = w.n + 1, !.wp = NoPoll,
                              !.enough_outbound = FALSE]
    /\ UNCHANGED <<stop_state, sync_status, highest_height,
                   header_block_counter, try_smart_sync, it, call, ret, absent_run>>

-----------------------------------------------------------------------------
(* smart_sync and do_smart_sync, syncer.rs:310-356 *)

Addrs == {"a1", "a2"}

\* peers_preferred: Option<Vec<PeerAddr>>
NoPreferred == [some |-> FALSE, v |-> <<>>]
PreferredOptions == {NoPreferred} \cup {[some |-> TRUE, v |-> l] : l \in SeqsUpTo(Addrs, 2)}

\* syncer.rs:318-324: the preferred addresses get_connected_peer() finds, in order
RECURSIVE ConnectedOf(_, _)
ConnectedOf(preferred, connected) ==
    IF preferred = <<>> THEN <<>>
    ELSE LET rest == ConnectedOf(Tail(preferred), connected)
         IN  IF Head(preferred) \in connected THEN <<Head(preferred)>> \o rest ELSE rest

\* do_smart_sync returning after its first ping
DoSmartSyncFirstOnly(smart_peers, most_work_difficulty) ==
    <<[to |-> smart_peers[1], total_difficulty |-> most_work_difficulty, height |-> 0]>>

\* syncer.rs:351-354: one send_ping(most_work_difficulty, 0) per smart peer
DoSmartSync(smart_peers, most_work_difficulty) ==
    [i \in 1..Len(smart_peers) |->
        [to |-> smart_peers[i], total_difficulty |-> most_work_difficulty, height |-> 0]]

\* syncer.rs:310-344: the pings sent; Err(SyncError) exactly when none is sent
SmartSync(most_work_difficulty, peers_preferred, connected) ==
    LET pp == ConnectedOf(IF peers_preferred.some THEN peers_preferred.v ELSE <<>>,
                          connected)
    IN  IF Len(pp) = 0
        THEN [ok |-> FALSE, pings |-> <<>>]
        ELSE [ok |-> TRUE, pings |-> DoSmartSync(pp, most_work_difficulty)]

-----------------------------------------------------------------------------
(* sync_loop, syncer.rs:115-306 *)

\* chain.head() and chain.tail() in the main loop: Result<Tip>, a tip being
\* known by its height
TipResults == {Err} \cup {Ok(h) : h \in Heights}

\* no call of smart_sync is under way
NoSmartCall == [called |-> FALSE, most_work_difficulty |-> 0,
                peers_preferred |-> NoPreferred, connected |-> {}]

\* chain.try_header_head(1 s): Result<Option<Tip>>
Absent == [ok |-> TRUE, some |-> FALSE, v |-> 0]
HeaderHeadResults ==
    {[ok |-> FALSE, some |-> FALSE, v |-> 0], Absent} \cup
    {[ok |-> TRUE, some |-> TRUE, v |-> h] : h \in Heights}

\* what an iteration of the main loop has done so far; -1: not read
ItNone ==
    [currently_syncing |-> FALSE,
     needs |-> "none",              \* needs_syncing: none, err, false, true
     compacts |-> 0,                \* calls of chain.compact()
     most_work |-> "none",          \* most_work_peer(): none, no_peer, peer
     smart |-> "none",              \* smart_sync: none, ok, err
     smart_call |-> NoSmartCall,    \* the call of smart_sync under way
     pings |-> <<>>,                \* the pings smart_sync sent
     head |-> -1, tail |-> -1, header_head |-> -1,
     lock |-> "none",               \* try_header_head: none, err, absent, some
     header_sync |-> "none",        \* HeaderSync.check_run: none, ok, err
     txhashset |-> "none",          \* the match of syncer.rs:275: none, yes, no
     body_sync |-> "none",          \* BodySync.check_run: none, true, false, err
     check_state_sync |-> FALSE,
     state_sync |-> FALSE,          \* StateSync.check_run was invoked
     calls |-> <<>>,                \* the check_run calls, in order
     error |-> "none",              \* the error! the iteration logged
     slept |-> <<>>]                \* its sleeps, in milliseconds

\* unwrap_or_restart_loop! continuing at once, without the sleep
RestartLoopNoSleep(rec, e) == [rec EXCEPT !.error = e]

\* unwrap_or_restart_loop!, syncer.rs:122-132, on Err(e): the error is logged,
\* the thread sleeps one second and continues the loop
RestartLoop(rec, e) ==
    [rec EXCEPT !.error = e, !.slept = Append(rec.slept, 1000)]

\* the main loop entering an iteration although the stop flag is set
LoopIgnoresStop ==
    /\ pc = "loop"
    /\ stop_state
    /\ pc' = "needs"
    /\ it' = [ItNone EXCEPT !.currently_syncing = IsSyncing(sync_status),
                            !.slept = <<10>>]
    /\ UNCHANGED <<stop_state, sync_status, w, highest_height,
                   header_block_counter, try_smart_sync, call, ret, absent_run>>

\* syncer.rs:171-174: the stop flag ends the main loop; sync_loop returns and
\* its locals are gone
LoopStopped ==
    /\ pc = "loop"
    /\ stop_state
    /\ pc' = "done"
    /\ it' = ItNone
    /\ highest_height' = 0
    /\ header_block_counter' = 0
    /\ try_smart_sync' = FALSE
    /\ absent_run' = 0
    /\ UNCHANGED <<stop_state, sync_status, w, call, ret>>

\* syncer.rs:172-178: a new iteration: sleep 10 ms, read is_syncing()
LoopEntry ==
    /\ pc = "loop"
    /\ ~stop_state
    /\ pc' = "needs"
    /\ it' = [ItNone EXCEPT !.currently_syncing = IsSyncing(sync_status),
                            !.slept = <<10>>]
    /\ UNCHANGED <<stop_state, sync_status, w, highest_height,
                   header_block_counter, try_smart_sync, call, ret, absent_run>>

\* the no-sync branch compacting whether or not the node was syncing
NoSyncBranchAlwaysCompacts(rec, compact_ok) ==
    IF compact_ok
    THEN [rec EXCEPT !.compacts = rec.compacts + 1,
                     !.slept = Append(rec.slept, 500)]
    ELSE RestartLoop([rec EXCEPT !.compacts = rec.compacts + 1], "compact")

\* the no-sync branch calling chain.compact() a second time when it fails
NoSyncBranchRetries(rec, compact_ok) ==
    IF rec.currently_syncing
    THEN IF compact_ok
         THEN [rec EXCEPT !.compacts = rec.compacts + 1,
                          !.slept = Append(rec.slept, 500)]
         ELSE RestartLoop([rec EXCEPT !.compacts = rec.compacts + 2], "compact")
    ELSE [rec EXCEPT !.slept = Append(rec.slept, 500)]

\* syncer.rs:189-203: no sync is needed
NoSyncBranch(rec, compact_ok) ==
    IF rec.currently_syncing
    THEN IF compact_ok
         THEN [rec EXCEPT !.compacts = rec.compacts + 1,
                          !.slept = Append(rec.slept, 500)]
         ELSE RestartLoop([rec EXCEPT !.compacts = rec.compacts + 1], "compact")
    ELSE [rec EXCEPT !.slept = Append(rec.slept, 500)]

\* syncer.rs:209-218: smart_sync returns; its error is logged and dropped
SmartSyncBranch(rec) ==
    LET res == SmartSync(rec.smart_call.most_work_difficulty,
                         rec.smart_call.peers_preferred, rec.smart_call.connected)
    IN  [rec EXCEPT !.smart = IF res.ok THEN "ok" ELSE "err",
                    !.pings = res.pings,
                    !.smart_call = NoSmartCall]

\* the flag left as it was by the attempt
TrySmartSyncKept == TRUE

\* syncer.rs:208: "only try once"
TrySmartSyncAfterAttempt == FALSE

\* highest_height taking every observed height, 0 included
NextHighestHeightAlways(highest, most_work_height) == most_work_height

\* syncer.rs:183-186: highest_height after needs_syncing returned most_work_height
NextHighestHeight(highest, most_work_height) ==
    IF most_work_height > 0 THEN most_work_height ELSE highest

\* syncer.rs:361-370: what most_work_peer() answered, "none" when
\* needs_syncing returned before asking
MostWork(head1, peer) ==
    IF ~head1.ok THEN "none" ELSE IF peer.some THEN "peer" ELSE "no_peer"

\* the status written to NoSync also when needs_syncing fails
StatusAfterNeedsSyncingOnErr(ok, needs_syncing, currently_syncing, status) ==
    IF (~ok \/ ~needs_syncing) /\ currently_syncing THEN "NoSync" ELSE status

\* syncer.rs:181-191: the status once needs_syncing has returned: the loop
\* writes it in one place, update(NoSync) when no sync is needed and the
\* iteration started syncing
StatusAfterNeedsSyncing(ok, needs_syncing, currently_syncing, status) ==
    IF ok /\ ~needs_syncing /\ currently_syncing THEN "NoSync" ELSE status

\* syncer.rs:181-209: needs_syncing(), then the no-sync branch, or the call of
\* smart_sync (once), or standard sync. smart_call holds the arguments of the
\* call and the preferred peers get_connected_peer() is going to find.
NeedsSync ==
    /\ pc = "needs"
    /\ \E head1 \in HeadResults, peer \in PeerOptions(MaxLoopPeerDiff),
          head2 \in {Err, Ok(0)},
          diff_iter \in DiffIters(LoopBlockDiffs, MaxLoopIterLen) :
          LET ns == NeedsSyncing(IsSyncing(sync_status), head1, peer, head2, diff_iter)
              asked == [it EXCEPT !.most_work = MostWork(head1, peer)]
          IN  /\ sync_status' =
                    StatusAfterNeedsSyncing(ns.ok, ns.is_syncing,
                                            it.currently_syncing, sync_status)
              /\ IF ~ns.ok
                 THEN /\ it' = RestartLoop([asked EXCEPT !.needs = "err"], "needs_syncing")
                      /\ pc' = "loop"
                      /\ UNCHANGED <<highest_height, try_smart_sync>>
                 ELSE /\ highest_height' = NextHighestHeight(highest_height, ns.height)
                      /\ IF ~ns.is_syncing
                         THEN /\ \E compact_ok \in IF it.currently_syncing THEN BOOLEAN ELSE {TRUE} :
                                   it' = NoSyncBranch([asked EXCEPT !.needs = "false"], compact_ok)
                              /\ pc' = "loop"
                              /\ UNCHANGED try_smart_sync
                         ELSE IF try_smart_sync
                         THEN /\ \E peers_preferred \in PreferredOptions,
                                    connected \in SUBSET Addrs :
                                   it' = [asked EXCEPT
                                            !.needs = "true",
                                            !.smart_call =
                                               [called |-> TRUE,
                                                most_work_difficulty |-> ns.total_difficulty,
                                                peers_preferred |-> peers_preferred,
                                                connected |-> connected]]
                              /\ try_smart_sync' = TrySmartSyncAfterAttempt
                              /\ pc' = "smart"
                         ELSE /\ it' = [asked EXCEPT !.needs = "true"]
                              /\ pc' = "sync"
                              /\ UNCHANGED try_smart_sync
    /\ UNCHANGED <<stop_state, w, header_block_counter, call, ret, absent_run>>

\* syncer.rs:209-219: smart_sync runs and returns; standard sync follows
SmartSyncStage ==
    /\ pc = "smart"
    /\ it' = SmartSyncBranch(it)
    /\ pc' = "sync"
    /\ UNCHANGED <<stop_state, sync_status, w, highest_height,
                   header_block_counter, try_smart_sync, call, ret, absent_run>>

\* the match of syncer.rs:244-252 without its last arm
IsTxHashsetOperationNoDone(status) == status \in TxHashsetPhases \ {"TxHashsetDone"}

\* syncer.rs:244-252
IsTxHashsetOperation(status) == status \in TxHashsetPhases

\* the backoff tolerating one more failure (<= for <)
HeaderLockPathOffByOne(counter, some, status) ==
    IF counter <= HEADER_LOCK_RETRIES /\ ~some THEN "backoff"
    ELSE IF IsTxHashsetOperation(status) /\ ~some THEN "txhashset"
    ELSE IF ~some THEN "diagnostic"
    ELSE "go"

\* syncer.rs:237-263: what the loop does with the answer of try_header_head:
\* "backoff" (237-241), "txhashset" (253-256), "diagnostic" (258-260), "go"
HeaderLockPath(counter, some, status) ==
    IF counter < HEADER_LOCK_RETRIES /\ ~some THEN "backoff"
    ELSE IF IsTxHashsetOperation(status) /\ ~some THEN "txhashset"
    ELSE IF ~some THEN "diagnostic"
    ELSE "go"

\* the counter never reset once the lock is obtained
NextHeaderBlockCounterNoReset(counter, path) ==
    IF path = "backoff" THEN counter + 1 ELSE counter

\* syncer.rs:238 and 263: the counter after the path taken
NextHeaderBlockCounter(counter, path) ==
    CASE path = "backoff" -> counter + 1
      [] path = "go" -> 0
      [] OTHER -> counter

\* syncer.rs:239, 254 and 258-260: the record after an absent answer
AbsentOutcome(rec, path) ==
    IF path = "diagnostic"
    THEN RestartLoop([rec EXCEPT !.lock = "absent"], "header_lock")
    ELSE [rec EXCEPT !.lock = "absent", !.slept = Append(rec.slept, 1000)]

\* the main loop going on without the head when chain.head() fails
ReadHeadsHeadUnchecked ==
    /\ pc = "sync"
    /\ \E head \in TipResults, tail \in TipResults,
          maybe_header_head \in HeaderHeadResults :
          LET rec == [it EXCEPT !.head = IF head.ok THEN head.v ELSE -1,
                                !.tail = IF tail.ok THEN tail.v ELSE -1]
              path == HeaderLockPath(header_block_counter,
                                     maybe_header_head.some, sync_status)
          IN  IF ~maybe_header_head.ok
              THEN /\ it' = RestartLoop([rec EXCEPT !.lock = "err"],
                                        "try_header_head")
                   /\ pc' = "loop"
                   /\ UNCHANGED <<header_block_counter, absent_run>>
              ELSE /\ header_block_counter' =
                         NextHeaderBlockCounter(header_block_counter, path)
                   /\ IF path = "go"
                      THEN /\ it' = [rec EXCEPT !.lock = "some",
                                       !.header_head = maybe_header_head.v]
                           /\ pc' = "hsync"
                           /\ absent_run' = 0
                      ELSE /\ it' = AbsentOutcome(rec, path)
                           /\ pc' = "loop"
                           /\ absent_run' =
                                 IF absent_run < MaxAbsentRun
                                 THEN absent_run + 1 ELSE absent_run
    /\ UNCHANGED <<stop_state, sync_status, w, highest_height, try_smart_sync,
                   call, ret>>

\* syncer.rs:222-263: head, tail, header head and the header-lock backoff
ReadHeads ==
    /\ pc = "sync"
    /\ \E head \in TipResults :
          IF ~head.ok
          THEN /\ it' = RestartLoop(it, "head")
               /\ pc' = "loop"
               /\ UNCHANGED <<header_block_counter, absent_run>>
          ELSE \E tail \in TipResults, maybe_header_head \in HeaderHeadResults :
                  LET rec == [it EXCEPT !.head = head.v,
                                        !.tail = IF tail.ok THEN tail.v ELSE head.v]
                      path == HeaderLockPath(header_block_counter,
                                             maybe_header_head.some, sync_status)
                  IN  IF ~maybe_header_head.ok
                      THEN /\ it' = RestartLoop([rec EXCEPT !.lock = "err"],
                                                "try_header_head")
                           /\ pc' = "loop"
                           /\ UNCHANGED <<header_block_counter, absent_run>>
                      ELSE /\ header_block_counter' =
                                 NextHeaderBlockCounter(header_block_counter, path)
                           /\ IF path = "go"
                              THEN /\ it' = [rec EXCEPT !.lock = "some",
                                               !.header_head = maybe_header_head.v]
                                   /\ pc' = "hsync"
                                   /\ absent_run' = 0
                              ELSE /\ it' = AbsentOutcome(rec, path)
                                   /\ pc' = "loop"
                                   /\ absent_run' =
                                         IF absent_run < MaxAbsentRun
                                         THEN absent_run + 1 ELSE absent_run
    /\ UNCHANGED <<stop_state, sync_status, w, highest_height, try_smart_sync,
                   call, ret>>

\* the match of syncer.rs:275-281 without its first arm
IsStateSyncStatusNoDownload(status) ==
    status \in TxHashsetPhases \ {"TxHashsetDownload"}

\* syncer.rs:275-281: the statuses that re-enter state sync
IsStateSyncStatus(status) == status \in TxHashsetPhases

\* the header gate with its comparison inverted
SkipBodySyncInverted(header_head, highest) == header_head > highest

\* syncer.rs:284: headers are still behind the highest height seen
SkipBodySync(header_head, highest) == header_head < highest

\* a check_run call: the delegate and what it is handed of header_head,
\* head, tail and highest_height; -1: not an argument
CheckRun(delegate, header_head, head, tail, highest) ==
    [delegate |-> delegate, header_head |-> header_head, head |-> head,
     tail |-> tail, highest_height |-> highest]

\* the stages going on after an error of HeaderSync.check_run
StageAfterHeaderSyncIgnoresErr(ok, status, header_head, highest) ==
    IF IsStateSyncStatus(status) THEN "state"
    ELSE IF SkipBodySync(header_head, highest) THEN "loop"
    ELSE "body"

\* syncer.rs:266-286: where the iteration goes once HeaderSync.check_run has
\* returned: back to the loop, to BodySync ("body") or to StateSync ("state")
StageAfterHeaderSync(ok, status, header_head, highest) ==
    IF ~ok THEN "loop"
    ELSE IF IsStateSyncStatus(status) THEN "state"
    ELSE IF SkipBodySync(header_head, highest) THEN "loop"
    ELSE "body"

\* syncer.rs:266-286: HeaderSync.check_run, then the status decides the stage.
\* The delegate may leave any status behind.
HeaderSyncStage ==
    /\ pc = "hsync"
    /\ \E ok \in BOOLEAN, status \in SyncStatus :
          LET called == [it EXCEPT !.calls =
                            Append(@, CheckRun("header_sync", it.header_head,
                                               -1, -1, highest_height))]
          IN  /\ sync_status' = status
              /\ pc' = StageAfterHeaderSync(ok, status, it.header_head,
                                            highest_height)
              /\ IF ~ok
                 THEN it' = RestartLoop([called EXCEPT !.header_sync = "err"],
                                        "header_sync")
                 ELSE IF IsStateSyncStatus(status)
                 THEN it' = [called EXCEPT !.header_sync = "ok",
                                           !.txhashset = "yes",
                                           !.check_state_sync = TRUE]
                 ELSE it' = [called EXCEPT !.header_sync = "ok",
                                           !.txhashset = "no"]
    /\ UNCHANGED <<stop_state, w, highest_height, header_block_counter,
                   try_smart_sync, call, ret, absent_run>>

\* syncer.rs:288-299: BodySync.check_run; Ok(true) asks for state sync, an
\* error is logged and the loop continues at once
BodySyncStage ==
    /\ pc = "body"
    /\ \E res \in {"true", "false", "err"}, status \in SyncStatus :
          LET called == [it EXCEPT !.calls =
                            Append(@, CheckRun("body_sync", -1, it.head, -1,
                                               highest_height))]
          IN  /\ sync_status' = status
              /\ CASE res = "err" ->
                        /\ it' = [called EXCEPT !.body_sync = "err",
                                                !.error = "body_sync"]
                        /\ pc' = "loop"
                   [] res = "true" ->
                        /\ it' = [called EXCEPT !.body_sync = "true",
                                                !.check_state_sync = TRUE]
                        /\ pc' = "state"
                   [] res = "false" ->
                        /\ it' = [called EXCEPT !.body_sync = "false"]
                        /\ pc' = "loop"
    /\ UNCHANGED <<stop_state, w, highest_height, header_block_counter,
                   try_smart_sync, call, ret, absent_run>>

\* syncer.rs:302-304: StateSync.check_run, its result dropped
StateSyncStage ==
    /\ pc = "state"
    /\ it.check_state_sync
    /\ \E status \in SyncStatus : sync_status' = status
    /\ it' = [it EXCEPT !.state_sync = TRUE,
                        !.calls = Append(@, CheckRun("state_sync", it.header_head,
                                                     it.head, it.tail,
                                                     highest_height))]
    /\ pc' = "loop"
    /\ UNCHANGED <<stop_state, w, highest_height, header_block_counter,
                   try_smart_sync, call, ret, absent_run>>

\* another thread stops the node: StopState is set and stays set
SetStop ==
    /\ pc \notin {"done", "idle"}
    /\ ~stop_state
    /\ stop_state' = TRUE
    /\ UNCHANGED <<pc, sync_status, w, highest_height, header_block_counter,
                   try_smart_sync, it, call, ret, absent_run>>

-----------------------------------------------------------------------------
(* needs_syncing applied on its own *)

NoCall == [is_syncing |-> FALSE, head1 |-> Err, peer |-> NoPeer,
           head2 |-> Err, diff_iter |-> IterErr]
NoRet == [done |-> FALSE, res |-> NsErr]

NsCalls ==
    [is_syncing : BOOLEAN, head1 : HeadResults, peer : PeerOptions(MaxPeerDiff),
     head2 : {Err, Ok(0)}, diff_iter : DiffIters(BlockDiffs, MaxIterLen)]

\* the sync thread is not running
Idle ==
    /\ pc = "idle"
    /\ stop_state = FALSE
    /\ sync_status = "NoSync"
    /\ w = WaitOver
    /\ highest_height = 0
    /\ header_block_counter = 0
    /\ try_smart_sync = TRUE
    /\ it = ItNone
    /\ absent_run = 0

InitNeeds ==
    /\ Idle
    /\ call \in NsCalls
    /\ ret = NoRet

CallNeedsSyncing ==
    /\ pc = "idle"
    /\ ~ret.done
    /\ ret' = [done |-> TRUE,
               res |-> NeedsSyncing(call.is_syncing, call.head1, call.peer,
                                    call.head2, call.diff_iter)]
    /\ UNCHANGED <<pc, stop_state, sync_status, w, highest_height,
                   header_block_counter, try_smart_sync, it, call, absent_run>>

NextNeeds == CallNeedsSyncing

SpecNeeds == InitNeeds /\ [][NextNeeds]_vars

-----------------------------------------------------------------------------
(* u64 amounts, core/src/consensus.rs *)

\* An amount is held as its groups of three decimal digits, lowest group
\* first and no zero group on top: 5_238_095_238 is <<238, 95, 238, 5>>.
Base == 1000

\* x without the zero groups on top
RECURSIVE Norm(_)
Norm(x) ==
    IF x = <<>> THEN <<>>
    ELSE IF x[Len(x)] = 0 THEN Norm(SubSeq(x, 1, Len(x) - 1))
    ELSE x

RECURSIVE Reverse(_)
Reverse(s) == IF s = <<>> THEN <<>> ELSE Append(Reverse(Tail(s)), Head(s))

\* the amount written as in the source, highest group first
Amount(groups) == Norm(Reverse(groups))

\* the amount of a number below 2^31
RECURSIVE AmountOf(_)
AmountOf(n) == IF n = 0 THEN <<>> ELSE <<n % Base>> \o AmountOf(n \div Base)

RECURSIVE AddCarry(_, _, _)
AddCarry(x, y, carry) ==
    IF x = <<>> /\ y = <<>> THEN AmountOf(carry)
    ELSE LET a == IF x = <<>> THEN 0 ELSE Head(x)
             b == IF y = <<>> THEN 0 ELSE Head(y)
             s == a + b + carry
         IN  <<s % Base>> \o
             AddCarry(IF x = <<>> THEN <<>> ELSE Tail(x),
                      IF y = <<>> THEN <<>> ELSE Tail(y), s \div Base)

\* x + y
Add(x, y) == AddCarry(x, y, 0)

RECURSIVE SubBorrow(_, _, _)
SubBorrow(x, y, borrow) ==
    IF x = <<>> THEN <<>>
    ELSE LET b == IF y = <<>> THEN 0 ELSE Head(y)
             d == Head(x) - b - borrow
         IN  <<IF d < 0 THEN d + Base ELSE d>> \o
             SubBorrow(Tail(x), IF y = <<>> THEN <<>> ELSE Tail(y),
                       IF d < 0 THEN 1 ELSE 0)

\* x - y, for x >= y
Sub(x, y) == Norm(SubBorrow(x, y, 0))

RECURSIVE MulCarry(_, _, _)
MulCarry(x, n, carry) ==
    IF x = <<>> THEN AmountOf(carry)
    ELSE LET p == Head(x) * n + carry
         IN  <<p % Base>> \o MulCarry(Tail(x), n, p \div Base)

\* n * x, for a count n of blocks (n <= 2_100_000 keeps every product below 2^31)
Mul(n, x) == IF n = 0 THEN <<>> ELSE MulCarry(x, n, 0)

\* x / d for a divisor d <= 2^21 (rem * Base stays below 2^31), from the
\* highest group down; rem is the remainder carried down
RECURSIVE DivRem(_, _, _)
DivRem(x, d, rem) ==
    IF x = <<>> THEN <<>>
    ELSE LET top == x[Len(x)] + rem * Base
         IN  Append(DivRem(SubSeq(x, 1, Len(x) - 1), d, top % d), top \div d)

\* x / (1 << k) for k < 32, the divisor taken in two factors
ShiftRight(x, k) ==
    LET j == IF k < 16 THEN k ELSE 16
    IN  Norm(DivRem(Norm(DivRem(x, 2^j, 0)), 2^(k - j), 0))

\* x < y
RECURSIVE Less(_, _)
Less(x, y) ==
    IF Len(x) # Len(y) THEN Len(x) < Len(y)
    ELSE IF x = <<>> THEN FALSE
    ELSE IF x[Len(x)] # y[Len(y)] THEN x[Len(x)] < y[Len(y)]
    ELSE Less(SubSeq(x, 1, Len(x) - 1), SubSeq(y, 1, Len(y) - 1))

\* u64::MAX + 1 = 2^64
TwoTo64 == Amount(<<18, 446, 744, 73, 709, 551, 616>>)

-----------------------------------------------------------------------------
(* The emission schedule, core/src/consensus.rs:345-424 *)

\* consensus.rs:347
MIMBLE_BLOCKS_PER_GROUP == 2100000
\* consensus.rs:348
MIMBLE_BLOCKS_PER_GROUP_FLOO == 2880
\* consensus.rs:350
MIMBLE_FIRST_GROUP_REWARD == Amount(<<5, 238, 95, 238>>)
\* consensus.rs:351
MIMBLE_SECOND_GROUP_REWARD == Amount(<<2, 380, 952, 380>>)
\* consensus.rs:352
MIMBLE_GROUPS_NUM == 32
\* consensus.rs:55
GENESIS_BLOCK_REWARD == 44100000

\* consensus.rs:370-374 and 391-395: the group size global::is_floonet() selects
BlocksPerGroup(floonet) ==
    IF floonet THEN MIMBLE_BLOCKS_PER_GROUP_FLOO ELSE MIMBLE_BLOCKS_PER_GROUP

\* calc_mwc_block_reward taking the group of the height itself (height for height - 1)
CalcMwcBlockRewardGroupOfHeight(height, floonet) ==
    IF height = 0 THEN AmountOf(GENESIS_BLOCK_REWARD)
    ELSE LET group_num == height \div BlocksPerGroup(floonet)
         IN  IF group_num < 1 THEN MIMBLE_FIRST_GROUP_REWARD
             ELSE IF group_num >= MIMBLE_GROUPS_NUM THEN <<>>
             ELSE ShiftRight(Mul(2, MIMBLE_SECOND_GROUP_REWARD), group_num)

\* calc_mwc_block_reward paying one group more (> for >=)
CalcMwcBlockRewardOneMoreGroup(height, floonet) ==
    IF height = 0 THEN AmountOf(GENESIS_BLOCK_REWARD)
    ELSE LET group_num == (height - 1) \div BlocksPerGroup(floonet)
         IN  IF group_num < 1 THEN MIMBLE_FIRST_GROUP_REWARD
             ELSE IF group_num > MIMBLE_GROUPS_NUM THEN <<>>
             ELSE ShiftRight(Mul(2, MIMBLE_SECOND_GROUP_REWARD), group_num)

\* calc_mwc_block_reward, consensus.rs:364-387; start_reward / (1 << group_num)
\* is the shift of start_reward by group_num
CalcMwcBlockReward(height, floonet) ==
    IF height = 0 THEN AmountOf(GENESIS_BLOCK_REWARD)
    ELSE LET group_num == (height - 1) \div BlocksPerGroup(floonet)
         IN  IF group_num < 1 THEN MIMBLE_FIRST_GROUP_REWARD
             ELSE IF group_num >= MIMBLE_GROUPS_NUM THEN <<>>
             ELSE ShiftRight(Mul(2, MIMBLE_SECOND_GROUP_REWARD), group_num)

\* the first argument whatever the second
MinLeft(a, b) == a

\* std::cmp::min
Min(a, b) == IF a < b THEN a ELSE b

\* the credit of group x taken at the reward of block x * blocks_per_group
OverageCreditLastBlock(x, block_count, floonet) ==
    LET blocks_per_group == BlocksPerGroup(floonet)
    IN  Mul(Min(block_count, blocks_per_group),
            IF x = 0 THEN MIMBLE_FIRST_GROUP_REWARD
            ELSE CalcMwcBlockReward(x * blocks_per_group, floonet))

\* consensus.rs:405-410: what iteration x of the loop adds to overage
OverageCredit(x, block_count, floonet) ==
    LET blocks_per_group == BlocksPerGroup(floonet)
    IN  Mul(Min(block_count, blocks_per_group),
            IF x = 0 THEN MIMBLE_FIRST_GROUP_REWARD
            ELSE CalcMwcBlockReward(x * blocks_per_group + 1, floonet))

\* the loop starting from nothing
OverageStartZero == <<>>

\* consensus.rs:402: overage starts at the reward of the genesis block
OverageStart == AmountOf(GENESIS_BLOCK_REWARD)

\* consensus.rs:411-413 and 404: the iteration is the last one: the break, or
\* the range 0..MIMBLE_GROUPS_NUM is through
OverageLoopEnds(x, block_count, floonet) ==
    \/ block_count < BlocksPerGroup(floonet)
    \/ x + 1 = MIMBLE_GROUPS_NUM

\* consensus.rs:418-423: the value returned
OverageResult(overage, genesis_had_reward) ==
    IF ~genesis_had_reward
    THEN Sub(overage, AmountOf(GENESIS_BLOCK_REWARD))
    ELSE overage

-----------------------------------------------------------------------------
(* The emission functions applied on their own, block after block *)

\* the heights the walks start from: genesis, and in every group the last
\* block but one and the 199th
EmissionStarts(floonet) ==
    {0} \cup {k * BlocksPerGroup(floonet) + d : k \in 1..MaxEpoch, d \in {-2, 199}}

\* the height a walk ends at
WalkEnd(floonet, start) ==
    IF start = 0 THEN GenesisWalk ELSE start + WalkLen

EmissionCalls ==
    UNION {[floonet : {f}, genesis_had_reward : BOOLEAN,
            start : EmissionStarts(f), height : {0}] : f \in BOOLEAN}

InitEmission ==
    /\ Idle
    /\ \E c \in EmissionCalls : call = [c EXCEPT !.height = c.start]
    /\ ret = NoRet

\* calc_mwc_block_reward(height), and calc_mwc_block_overage(height, ...) up
\* to its loop (consensus.rs:391-402)
EnterEmission(height, floonet, base, sum) ==
    [done |-> FALSE,
     reward |-> CalcMwcBlockReward(height, floonet),
     x |-> 0, block_count |-> height, overage |-> OverageStart,
     base |-> base,     \* the overage at the start of the walk
     sum |-> sum,       \* the rewards of the blocks after the start
     prev |-> <<>>]     \* the overage returned at the height before

\* both functions are called at the height the walk starts from
CallEmission ==
    /\ pc = "idle"
    /\ ret = NoRet
    /\ ret' = EnterEmission(call.height, call.floonet, <<>>, <<>>)
    /\ UNCHANGED <<pc, stop_state, sync_status, w, highest_height,
                   header_block_counter, try_smart_sync, it, call, absent_run>>

\* consensus.rs:404-423: one iteration of the loop of calc_mwc_block_overage;
\* after the last one the function returns
OverageIteration ==
    /\ pc = "idle"
    /\ ret # NoRet
    /\ ~ret.done
    /\ LET credited == Add(ret.overage,
                           OverageCredit(ret.x, ret.block_count, call.floonet))
           result == OverageResult(credited, call.genesis_had_reward)
       IN  IF OverageLoopEnds(ret.x, ret.block_count, call.floonet)
           THEN ret' = [ret EXCEPT
                          !.done = TRUE,
                          !.overage = result,
                          !.base = IF call.height = call.start THEN result ELSE @]
           ELSE ret' = [ret EXCEPT
                          !.x = ret.x + 1,
                          !.block_count = ret.block_count - BlocksPerGroup(call.floonet),
                          !.overage = credited]
    /\ UNCHANGED <<pc, stop_state, sync_status, w, highest_height,
                   header_block_counter, try_smart_sync, it, call, absent_run>>

\* both functions are called at the next height; its reward is added to the sum
NextBlock ==
    /\ pc = "idle"
    /\ ret # NoRet
    /\ ret.done
    /\ call.height < WalkEnd(call.floonet, call.start)
    /\ call' = [call EXCEPT !.height = call.height + 1]
    /\ LET entered == EnterEmission(call.height + 1, call.floonet, ret.base, ret.sum)
       IN  ret' = [entered EXCEPT !.sum = Add(ret.sum, entered.reward),
                                  !.prev = ret.overage]
    /\ UNCHANGED <<pc, stop_state, sync_status, w, highest_height,
                   header_block_counter, try_smart_sync, it, absent_run>>

NextEmission == CallEmission \/ OverageIteration \/ NextBlock

SpecEmission == InitEmission /\ [][NextEmission]_vars

-----------------------------------------------------------------------------
(* reward, core/src/consensus.rs, applied on its own *)

\* fees are drawn within MaxFee of 0, of u64::MAX and of the fee the sum
\* saturates at
MaxFee == 2

\* u64::MAX
U64Max == Sub(TwoTo64, AmountOf(1))

\* the sum kept modulo 2^64
WrappingAdd(x, y) ==
    LET s == Add(x, y)
    IN  IF Less(s, TwoTo64) THEN s ELSE Sub(s, TwoTo64)

\* u64::saturating_add (consensus.rs:51)
SaturatingAdd(x, y) ==
    LET s == Add(x, y)
    IN  IF Less(s, TwoTo64) THEN s ELSE U64Max

\* reward, consensus.rs:47-52
Reward(fee, height, floonet) ==
    LET block_reward == CalcMwcBlockReward(height, floonet)
    IN  SaturatingAdd(block_reward, fee)

\* the genesis block, and the first block of every group
RewardHeights(floonet) ==
    {0} \cup {k * BlocksPerGroup(floonet) + 1 : k \in 0..MaxEpoch}

\* the fees tried with a block reward r
Fees(r) ==
    LET edge == Sub(U64Max, r)
    IN  UNION {{AmountOf(k), Sub(U64Max, AmountOf(k)), Sub(edge, AmountOf(k)),
                IF Less(Add(edge, AmountOf(k)), TwoTo64)
                THEN Add(edge, AmountOf(k)) ELSE U64Max} : k \in 0..MaxFee}

RewardCalls ==
    UNION {UNION {[floonet : {f}, height : {h},
                   fee : Fees(CalcMwcBlockReward(h, f))]
                  : h \in RewardHeights(f)} : f \in BOOLEAN}

InitReward ==
    /\ Idle
    /\ call \in RewardCalls
    /\ ret = NoRet

CallReward ==
    /\ pc = "idle"
    /\ ret = NoRet
    /\ ret' = [done |-> TRUE,
               reward |-> Reward(call.fee, call.height, call.floonet)]
    /\ UNCHANGED <<pc, stop_state, sync_status, w, highest_height,
                   header_block_counter, try_smart_sync, it, call, absent_run>>

NextReward == CallReward

SpecReward == InitReward /\ [][NextReward]_vars

-----------------------------------------------------------------------------
(* Parameters of core/src/consensus.rs *)

\* consensus.rs:41
BLOCK_TIME_SEC == 60
\* consensus.rs:58
HOUR_HEIGHT == 3600 \div BLOCK_TIME_SEC
\* consensus.rs:60
DAY_HEIGHT == 24 * HOUR_HEIGHT
\* consensus.rs:62
WEEK_HEIGHT == 7 * DAY_HEIGHT
\* consensus.rs:64
YEAR_HEIGHT == 52 * WEEK_HEIGHT

\* consensus.rs:89
SECOND_POW_EDGE_BITS == 29
\* consensus.rs:93
BASE_EDGE_BITS == 24

\* u64::saturating_sub, on numbers below 2^31
SaturatingSub(a, b) == IF a < b THEN 0 ELSE a - b

\* the ratio with the quotient rounded to the nearest
SecondaryPowRatioRounded(height) ==
    SaturatingSub(90, (height + ((2 * YEAR_HEIGHT) \div 90) \div 2)
                          \div ((2 * YEAR_HEIGHT) \div 90))

\* secondary_pow_ratio, consensus.rs:72-74
SecondaryPowRatio(height) ==
    SaturatingSub(90, height \div ((2 * YEAR_HEIGHT) \div 90))

\* a << n
ShiftLeft(a, n) == a * 2^n

\* global::base_edge_bits(), as the specification's graph weight has it:
\* the reference size BASE_EDGE_BITS
BaseEdgeBits == BASE_EDGE_BITS

\* graph_weight with the sizes up to 32 weighted
GraphWeightUpTo32(height, edge_bits) ==
    IF edge_bits <= 32
    THEN ShiftLeft(2, edge_bits - BaseEdgeBits) * edge_bits
    ELSE 1

\* graph_weight, consensus.rs:169-175, for edge_bits >= base_edge_bits()
GraphWeight(height, edge_bits) ==
    IF edge_bits <= 31
    THEN ShiftLeft(2, edge_bits - BaseEdgeBits) * edge_bits
    ELSE 1

\* the unit taken with 1 shifted in place of 2
UnitDifficultyOneShift ==
    ShiftLeft(1, SECOND_POW_EDGE_BITS - BASE_EDGE_BITS) * SECOND_POW_EDGE_BITS

\* consensus.rs:186-187
UNIT_DIFFICULTY ==
    ShiftLeft(2, SECOND_POW_EDGE_BITS - BASE_EDGE_BITS) * SECOND_POW_EDGE_BITS

\* consensus.rs:193
INITIAL_DIFFICULTY == 1000000 * UNIT_DIFFICULTY

\* genesis_main, genesis.rs:140-149: the proof of work of the mainnet genesis
GenesisMainPow ==
    [total_difficulty |-> 10000, secondary_scaling |-> 1856, nonce |-> 60,
     edge_bits |-> 29]

-----------------------------------------------------------------------------
(* secondary_pow_ratio applied on its own, height after height *)

\* the walks start around the multiples 1..MaxRatioSteps of the step
MaxRatioSteps == 92
\* blocks of a walk
RatioWalkLen == 4
\* a height far above the last step
FarRatioHeight == 2000000000

RatioStarts ==
    {0, FarRatioHeight}
        \cup {k * ((2 * YEAR_HEIGHT) \div 90) - 2 : k \in 1..MaxRatioSteps}

InitRatio ==
    /\ Idle
    /\ \E s \in RatioStarts : call = [start |-> s, height |-> s]
    /\ ret = NoRet

CallRatio ==
    /\ pc = "idle"
    /\ ret = NoRet
    /\ ret' = [done |-> TRUE, ratio |-> SecondaryPowRatio(call.height),
               prev |-> SecondaryPowRatio(call.height)]
    /\ UNCHANGED <<pc, stop_state, sync_status, w, highest_height,
                   header_block_counter, try_smart_sync, it, call, absent_run>>

\* the function is called at the next height; prev is its last result
NextRatioHeight ==
    /\ pc = "idle"
    /\ ret # NoRet
    /\ call.height < call.start + RatioWalkLen
    /\ call' = [call EXCEPT !.height = call.height + 1]
    /\ ret' = [done |-> TRUE, ratio |-> SecondaryPowRatio(call.height + 1),
               prev |-> ret.ratio]
    /\ UNCHANGED <<pc, stop_state, sync_status, w, highest_height,
                   header_block_counter, try_smart_sync, it, absent_run>>

NextRatio == CallRatio \/ NextRatioHeight

SpecRatio == InitRatio /\ [][NextRatio]_vars

-----------------------------------------------------------------------------
(* graph_weight applied on its own *)

\* the heights are the years 0..MaxWeightYears, and block 1
MaxWeightYears == 3
\* the largest u8
MaxEdgeBits == 255

WeightHeights == {1} \cup {y * YEAR_HEIGHT : y \in 0..MaxWeightYears}

InitWeight ==
    /\ Idle
    /\ call \in [height : WeightHeights, edge_bits : BaseEdgeBits..MaxEdgeBits]
    /\ ret = NoRet

CallWeight ==
    /\ pc = "idle"
    /\ ret = NoRet
    /\ ret' = [done |-> TRUE, weight |-> GraphWeight(call.height, call.edge_bits)]
    /\ UNCHANGED <<pc, stop_state, sync_status, w, highest_height,
                   header_block_counter, try_smart_sync, it, call, absent_run>>

NextWeight == CallWeight

SpecWeight == InitWeight /\ [][NextWeight]_vars

-----------------------------------------------------------------------------
(* u64 and u32 arithmetic of the difficulty engine, core/src/consensus.rs *)

\* the number of an amount below 2^31
RECURSIVE ToNat(_)
ToNat(x) == IF x = <<>> THEN 0 ELSE Head(x) + Base * ToNat(Tail(x))

\* x / d, truncated, for a divisor d <= 2^21
Div(x, d) == Norm(DivRem(x, d, 0))

\* x >> k, 16 bits at a time
RECURSIVE Shr(_, _)
Shr(x, k) == IF k <= 16 THEN Div(x, 2^k) ELSE Shr(Div(x, 2^16), k - 16)

\* x << k, 16 bits at a time
RECURSIVE Shl(_, _)
Shl(x, k) == IF k <= 16 THEN Mul(2^k, x) ELSE Shl(Mul(2^16, x), k - 16)

\* the low bits of x: x modulo 2^bits
LowBits(x, bits) == Sub(x, Shl(Shr(x, bits), bits))

MaxA(x, y) == IF Less(x, y) THEN y ELSE x
MinA(x, y) == IF Less(y, x) THEN y ELSE x

\* an arithmetic step either yields a u64 or panics
Panic == [ok |-> FALSE, v |-> <<>>]
Val(x) == [ok |-> TRUE, v |-> x]

\* a result beyond u64::MAX: with overflow checks (a debug build) the
\* operation panics, without them (a release build) it wraps
Checked(x, overflow_checks) ==
    IF Less(x, TwoTo64) THEN Val(x)
    ELSE IF overflow_checks THEN Panic
    ELSE Val(LowBits(x, 64))

U64Add(a, b, overflow_checks) == Checked(Add(a, b), overflow_checks)

U64Mul(a, n, overflow_checks) == Checked(Mul(n, a), overflow_checks)

U64Sub(a, b, overflow_checks) ==
    IF ~Less(a, b) THEN Val(Sub(a, b))
    ELSE IF overflow_checks THEN Panic
    ELSE Val(Sub(Add(a, TwoTo64), b))

\* s[lo] + ... + s[hi], the terms paired off
RECURSIVE SumRange(_, _, _)
SumRange(s, lo, hi) ==
    IF lo > hi THEN <<>>
    ELSE IF lo = hi THEN s[lo]
    ELSE LET mid == (lo + hi) \div 2
         IN  Add(SumRange(s, lo, mid), SumRange(s, mid + 1, hi))

\* Iterator::sum over u64: it overflows at some term exactly when the whole
\* sum is beyond u64::MAX, and wraps to the whole sum modulo 2^64
U64Sum(s, overflow_checks) == Checked(SumRange(s, 1, Len(s)), overflow_checks)

-----------------------------------------------------------------------------
(* The difficulty engine, core/src/consensus.rs *)

\* consensus.rs:151
DIFFICULTY_ADJUST_WINDOW == HOUR_HEIGHT
\* consensus.rs:154
BLOCK_TIME_WINDOW == DIFFICULTY_ADJUST_WINDOW * BLOCK_TIME_SEC
\* consensus.rs:158
CLAMP_FACTOR == 2
\* consensus.rs:161
DIFFICULTY_DAMP_FACTOR == 3
\* consensus.rs:164
AR_SCALE_DAMP_FACTOR == 13
\* consensus.rs:179
MIN_DIFFICULTY == DIFFICULTY_DAMP_FACTOR
\* consensus.rs:183
MIN_AR_SCALE == AR_SCALE_DAMP_FACTOR

\* ar_scale_damp_factor, consensus.rs:78-80
ArScaleDampFactor(height) == AR_SCALE_DAMP_FACTOR

\* HeaderInfo::from_diff_scaling, consensus.rs:244-252, block_hash left out
FromDiffScaling(difficulty, secondary_scaling) ==
    [timestamp |-> AmountOf(1), difficulty |-> difficulty,
     secondary_scaling |-> secondary_scaling, is_secondary |-> TRUE]

\* the value left as it is, not moved toward the goal
DampNone(actual, goal, damp_factor, overflow_checks) == Val(actual)

\* damp, consensus.rs:256-258
Damp(actual, goal, damp_factor, overflow_checks) ==
    LET sum == U64Add(actual, AmountOf((damp_factor - 1) * goal), overflow_checks)
    IN  IF sum.ok THEN Val(Div(sum.v, damp_factor)) ELSE Panic

\* the clamp with its upper end at goal * clamp_factor^2
ClampWide(actual, goal, clamp_factor) ==
    MaxA(AmountOf(goal \div clamp_factor),
         MinA(actual, AmountOf(goal * clamp_factor * clamp_factor)))

\* clamp, consensus.rs:261-263
Clamp(actual, goal, clamp_factor) ==
    MaxA(AmountOf(goal \div clamp_factor),
         MinA(actual, AmountOf(goal * clamp_factor)))

\* ar_count, consensus.rs:315-317
ArCount(height, diff_data) ==
    100 * Cardinality({i \in 1..Len(diff_data) : diff_data[i].is_secondary})

\* the floor left out: scale as u32
NarrowOnly(scale) == LowBits(scale, 32)

\* consensus.rs:342: max(MIN_AR_SCALE, scale) as u32
FloorThenNarrow(scale) == LowBits(MaxA(AmountOf(MIN_AR_SCALE), scale), 32)

\* consensus.rs:339: max(1, adj_count), the divisor of the scale
Divisor(adj_count) == ToNat(MaxA(AmountOf(1), adj_count))

\* the scale with the division done before the product
ScaleDivideFirst(scale_sum, target_pct, adj_count) ==
    Mul(target_pct, Div(scale_sum, Divisor(adj_count)))

\* consensus.rs:339: scale_sum * target_pct / max(1, adj_count)
Scale(scale_sum, target_pct, adj_count) ==
    Div(Mul(target_pct, scale_sum), Divisor(adj_count))

\* consensus.rs:330-338: the secondary count of the window, damped and
\* clamped toward DIFFICULTY_ADJUST_WINDOW * target_pct
AdjCount(height, diff_data) ==
    LET target_count == DIFFICULTY_ADJUST_WINDOW * SecondaryPowRatio(height)
    IN  Clamp(Damp(AmountOf(ArCount(height, diff_data)), target_count,
                   ArScaleDampFactor(height), TRUE).v,
              target_count, CLAMP_FACTOR)

\* secondary_pow_scaling, consensus.rs:320-343; with secondary_scaling a u32
\* and at most 2^21 records no step of it leaves the u64 range
SecondaryPowScaling(height, diff_data) ==
    LET scale_sum ==
            SumRange([i \in 1..Len(diff_data) |-> diff_data[i].secondary_scaling],
                     1, Len(diff_data))
        target_pct == SecondaryPowRatio(height)
        adj_count == AdjCount(height, diff_data)
        scale == Scale(scale_sum, target_pct, adj_count)
    IN  FloorThenNarrow(scale)

\* the sum taken over the whole window, the oldest record included
DiffSumWholeWindow(diff_data, overflow_checks) ==
    U64Sum([i \in 1..Len(diff_data) |-> diff_data[i].difficulty],
           overflow_checks)

\* consensus.rs:295-300: the difficulties of all records but the first
DiffSum(diff_data, overflow_checks) ==
    U64Sum([i \in 1..(Len(diff_data) - 1) |-> diff_data[i + 1].difficulty],
           overflow_checks)

\* the quotient returned as it is
NoMinimum(quotient) == quotient

\* consensus.rs:309: max(MIN_DIFFICULTY, ...)
AtLeastMinDifficulty(quotient) == MaxA(AmountOf(MIN_DIFFICULTY), quotient)

\* the span taken with a saturating subtraction
TsDeltaSaturating(diff_data, overflow_checks) ==
    LET last == diff_data[DIFFICULTY_ADJUST_WINDOW + 1].timestamp
        first == diff_data[1].timestamp
    IN  IF Less(last, first) THEN Val(<<>>) ELSE Val(Sub(last, first))

\* consensus.rs:291-293: the timestamp delta across the window
TsDelta(diff_data, overflow_checks) ==
    U64Sub(diff_data[DIFFICULTY_ADJUST_WINDOW + 1].timestamp,
           diff_data[1].timestamp, overflow_checks)

\* the function did not return
Panicked == [panicked |-> TRUE, info |-> FromDiffScaling(<<>>, <<>>)]

\* next_difficulty, consensus.rs:278-312, on the vector diff_data that
\* global::difficulty_data_to_vector hands it: DIFFICULTY_ADJUST_WINDOW + 1
\* records, oldest first (consensus.rs:282-286)
NextDifficulty(height, diff_data, overflow_checks) ==
    LET sec_pow_scaling == SecondaryPowScaling(height, Tail(diff_data))
        ts_delta == TsDelta(diff_data, overflow_checks)
        diff_sum == DiffSum(diff_data, overflow_checks)
        damped == Damp(ts_delta.v, BLOCK_TIME_WINDOW, DIFFICULTY_DAMP_FACTOR,
                       overflow_checks)
        adj_ts == Clamp(damped.v, BLOCK_TIME_WINDOW, CLAMP_FACTOR)
        product == U64Mul(diff_sum.v, BLOCK_TIME_SEC, overflow_checks)
        difficulty == AtLeastMinDifficulty(Div(product.v, ToNat(adj_ts)))
    IN  IF ts_delta.ok /\ diff_sum.ok /\ damped.ok /\ product.ok
        THEN [panicked |-> FALSE,
              info |-> FromDiffScaling(difficulty, sec_pow_scaling)]
        ELSE Panicked

-----------------------------------------------------------------------------
(* next_difficulty applied on its own *)

\* the timestamp of the oldest record is 0 or MaxFirstTimestamp
MaxFirstTimestamp == 1000
\* records of the window that carry the high difficulty: 0..MaxHighRecords,
\* or all of them
MaxHighRecords == 2
\* the low difficulties of a window are 0..MaxLowDifficulty
MaxLowDifficulty == 1
\* a difficulty of a thousand or so
SmallDifficulty == 1000

\* the timestamp spans tried, in seconds: around the goal, the ends of the
\* clamp and their doubles
NatSpans == {0, 1, 1800, 3600, 7200, 14399, 14400, 14401, 28800}

\* the spans of a window whose oldest timestamp is first: the ones above and
\* the ones that bring the newest timestamp to the end of the u64 range
SpanSamples(first) ==
    {AmountOf(s) : s \in NatSpans}
        \cup {Sub(Sub(U64Max, first), AmountOf(k)) :
                k \in {0, 2 * BLOCK_TIME_WINDOW - 1, 2 * BLOCK_TIME_WINDOW}}

\* the newest timestamps of a window whose oldest timestamp is first: one
\* second before it, and the spans after it
LastTimestamps(first) ==
    {Add(first, s) : s \in SpanSamples(first)}
        \cup (IF first = <<>> THEN {} ELSE {Sub(first, AmountOf(1))})

\* the high difficulties: small, the initial one, the largest that a whole
\* window can carry with the product of its sum by BLOCK_TIME_SEC in a u64,
\* the next one, the largest whose own product by BLOCK_TIME_SEC fits a u64,
\* the next one, and u64::MAX
HighDifficulties ==
    {AmountOf(SmallDifficulty), AmountOf(INITIAL_DIFFICULTY),
     Div(U64Max, DIFFICULTY_ADJUST_WINDOW * BLOCK_TIME_SEC),
     Add(Div(U64Max, DIFFICULTY_ADJUST_WINDOW * BLOCK_TIME_SEC), AmountOf(1)),
     Div(U64Max, BLOCK_TIME_SEC),
     Add(Div(U64Max, BLOCK_TIME_SEC), AmountOf(1)), U64Max}

HighRecords == 0..MaxHighRecords \cup {DIFFICULTY_ADJUST_WINDOW}

\* a window of DIFFICULTY_ADJUST_WINDOW + 1 records, oldest first: the oldest
\* carries the difficulty old, the newest n_high records high, the others low
DiffWindow(first, last, old, low, high, n_high, secondary_scaling, n_secondary) ==
    [i \in 1..(DIFFICULTY_ADJUST_WINDOW + 1) |->
        [timestamp |-> IF i = DIFFICULTY_ADJUST_WINDOW + 1 THEN last ELSE first,
         difficulty |-> IF i = 1 THEN old
                        ELSE IF i > DIFFICULTY_ADJUST_WINDOW + 1 - n_high THEN high
                        ELSE low,
         secondary_scaling |-> secondary_scaling,
         is_secondary |-> i <= n_secondary + 1]]

\* the window with another newest timestamp
Retimed(diff_data, last) ==
    [diff_data EXCEPT ![DIFFICULTY_ADJUST_WINDOW + 1].timestamp = last]

DifficultyHeights == {0, 90 * ((2 * YEAR_HEIGHT) \div 90)}

DifficultyCalls ==
    UNION {[height : DifficultyHeights,
            overflow_checks : BOOLEAN,
            diff_data : {DiffWindow(first, last, U64Max, AmountOf(low), high,
                                    n_high, AmountOf(UNIT_DIFFICULTY),
                                    DIFFICULTY_ADJUST_WINDOW)
                         : last \in LastTimestamps(first),
                           low \in 0..MaxLowDifficulty,
                           high \in HighDifficulties,
                           n_high \in HighRecords}]
           : first \in {AmountOf(0), AmountOf(MaxFirstTimestamp)}}

NoPrev == [some |-> FALSE, res |-> Panicked, ts_delta |-> <<>>]

InitDifficulty ==
    /\ Idle
    /\ call \in DifficultyCalls
    /\ ret = NoRet

CallNextDifficulty ==
    /\ pc = "idle"
    /\ ret = NoRet
    /\ ret' = [done |-> TRUE,
               res |-> NextDifficulty(call.height, call.diff_data,
                                      call.overflow_checks),
               prev |-> NoPrev]
    /\ UNCHANGED <<pc, stop_state, sync_status, w, highest_height,
                   header_block_counter, try_smart_sync, it, call, absent_run>>

\* the span of the window, when its newest timestamp is not before the oldest
SpanOf(diff_data) ==
    Sub(diff_data[DIFFICULTY_ADJUST_WINDOW + 1].timestamp, diff_data[1].timestamp)

Ordered(diff_data) ==
    ~Less(diff_data[DIFFICULTY_ADJUST_WINDOW + 1].timestamp, diff_data[1].timestamp)

\* the function is called again on the same window but for a shorter span:
\* half the span, or a shorter one of the samples; prev is the result before
CallShorterSpan ==
    /\ pc = "idle"
    /\ ret # NoRet
    /\ ~ret.prev.some
    /\ Ordered(call.diff_data)
    /\ LET first == call.diff_data[1].timestamp
           span == SpanOf(call.diff_data)
       IN  \E s \in {Div(span, 2)} \cup {t \in SpanSamples(first) : Less(t, span)} :
              /\ s # span
              /\ call' = [call EXCEPT !.diff_data = Retimed(@, Add(first, s))]
              /\ ret' = [done |-> TRUE,
                         res |-> NextDifficulty(call.height, call'.diff_data,
                                                call.overflow_checks),
                         prev |-> [some |-> TRUE, res |-> ret.res,
                                   ts_delta |-> span]]
    /\ UNCHANGED <<pc, stop_state, sync_status, w, highest_height,
                   header_block_counter, try_smart_sync, it, absent_run>>

NextDifficultyStep == CallNextDifficulty \/ CallShorterSpan

SpecDifficulty == InitDifficulty /\ [][NextDifficultyStep]_vars

-----------------------------------------------------------------------------
(* secondary_pow_scaling applied on its own *)

\* records of the window that carry the high scaling, or are secondary:
\* 0..MaxFewRecords, half of the window, or all of it
MaxFewRecords == 1

\* u32::MAX
U32Max == Sub(Shl(AmountOf(1), 32), AmountOf(1))

\* the scaling factors of the records: none, the floor, the unit, one that
\* brings the scale of a full window to 2^32, and u32::MAX
ScalingSamples ==
    {AmountOf(0), AmountOf(MIN_AR_SCALE), AmountOf(UNIT_DIFFICULTY),
     Amount(<<3, 964, 95, 742>>), U32Max}

RecordCounts ==
    0..MaxFewRecords
        \cup {DIFFICULTY_ADJUST_WINDOW \div 2, DIFFICULTY_ADJUST_WINDOW}

\* the heights where the ratio is 90, 45 and 1, the first height where it
\* is 0, and two later ones
ScalingHeights ==
    {k * ((2 * YEAR_HEIGHT) \div 90) : k \in {0, 45, 89, 90, 91}}
        \cup {FarRatioHeight}

\* &diff_data[1..]: the newest DIFFICULTY_ADJUST_WINDOW records of a window,
\* the newest n_high of them carrying the scaling high, the others low, the
\* oldest n_secondary of them secondary
ScalingCalls ==
    [height : ScalingHeights,
     diff_data : {Tail([DiffWindow(AmountOf(0), AmountOf(BLOCK_TIME_WINDOW),
                                   AmountOf(INITIAL_DIFFICULTY),
                                   AmountOf(INITIAL_DIFFICULTY),
                                   AmountOf(INITIAL_DIFFICULTY), 0, low,
                                   n_secondary)
                        EXCEPT ![DIFFICULTY_ADJUST_WINDOW + 1].secondary_scaling = high])
                  : low \in ScalingSamples, high \in ScalingSamples,
                    n_secondary \in RecordCounts}]

InitScaling ==
    /\ Idle
    /\ call \in ScalingCalls
    /\ ret = NoRet

CallSecondaryPowScaling ==
    /\ pc = "idle"
    /\ ret = NoRet
    /\ ret' = [done |-> TRUE,
               divisor |-> Divisor(AdjCount(call.height, call.diff_data)),
               scaling |-> SecondaryPowScaling(call.height, call.diff_data)]
    /\ UNCHANGED <<pc, stop_state, sync_status, w, highest_height,
                   header_block_counter, try_smart_sync, it, call, absent_run>>

SpecScaling == InitScaling /\ [][CallSecondaryPowScaling]_vars

-----------------------------------------------------------------------------
(* The sync thread *)

\* run_sync, syncer.rs:30-51: the thread starts in the peer wait; the
\* locals of sync_loop (syncer.rs:159-168) have their first values
Init ==
    /\ pc = "start"
    /\ stop_state = FALSE
    /\ sync_status \in {"AwaitingPeers_true", "AwaitingPeers_false"}
    /\ w \in [wait_secs : {0}, head_difficulty : {0}, n : {0}, production : BOOLEAN,
              wp : {NoPoll}, enough_outbound : {FALSE}]
    /\ highest_height = 0
    /\ header_block_counter = 0
    /\ try_smart_sync = TRUE
    /\ it = ItNone
    /\ call = NoCall
    /\ ret = NoRet
    /\ absent_run = 0

Thread ==
    \/ WaitStart
    \/ WaitStopped
    \/ WaitPoll
    \/ WaitDecide
    \/ LoopStopped
    \/ LoopEntry
    \/ NeedsSync
    \/ SmartSyncStage
    \/ ReadHeads
    \/ HeaderSyncStage
    \/ BodySyncStage
    \/ StateSyncStage

Next == Thread \/ SetStop

Spec == Init /\ [][Next]_vars

\* the thread is scheduled as long as it can take a step
FairSpec == Spec /\ WF_vars(Thread)

-----------------------------------------------------------------------------
(* Properties of needs_syncing, under SpecNeeds *)

\* the sum of the first k elements of s (all of them when s is shorter)
RECURSIVE SumFirst(_, _)
SumFirst(s, k) ==
    IF k = 0 \/ s = <<>> THEN 0 ELSE Head(s) + SumFirst(Tail(s), k - 1)

\* needs_syncing was entered with a most-work peer and got the local difficulty
NsEntered(syncing) ==
    /\ ret.done
    /\ call.is_syncing = syncing
    /\ call.head1.ok
    /\ call.peer.some

\* C1 as stated: not syncing and a most-work peer exists: needs_syncing returns
\* is_syncing = true if and only if the peer's total difficulty is strictly
\* greater than the local total difficulty plus the sum of the difficulties of
\* the last (up to) 5 blocks.
C1_AsStated ==
    NsEntered(FALSE) =>
        /\ ret.res.ok
        /\ ret.res.is_syncing <=>
              call.peer.total_difficulty >
                 call.head1.v + SumFirst(call.diff_iter.v, 5)

\* C1 amended: the same, provided chain.difficulty_iter() succeeds; when it
\* fails needs_syncing returns (false, 0, 0) whatever the peer's difficulty.
C1_EntryThreshold ==
    NsEntered(FALSE) =>
        /\ ret.res.ok
        /\ call.diff_iter.ok =>
              /\ ret.res.is_syncing <=>
                    call.peer.total_difficulty >
                       call.head1.v + SumFirst(call.diff_iter.v, 5)
              /\ ret.res.height = call.peer.height
              /\ ret.res.total_difficulty = call.peer.total_difficulty
        /\ ~call.diff_iter.ok => ret.res = NsOk(FALSE, 0, 0)

\* C1 witness: more than five blocks, the peer ahead by threshold + 1: sync is entered
C1_Witness ==
    /\ NsEntered(FALSE)
    /\ call.diff_iter.ok
    /\ Len(call.diff_iter.v) > 5
    /\ call.peer.total_difficulty = call.head1.v + SumFirst(call.diff_iter.v, 5) + 1
    /\ ret.res.is_syncing

\* C2 as stated: already syncing and a most-work peer exists: needs_syncing
\* returns false if and only if the peer's total difficulty is <= the local
\* total difficulty.
C2_AsStated ==
    NsEntered(TRUE) =>
        ((ret.res.ok /\ ~ret.res.is_syncing) <=>
            call.peer.total_difficulty <= call.head1.v)

\* C2 amended: already syncing, a peer ahead by any positive amount keeps
\* is_syncing = true; a peer at or below the local difficulty yields false,
\* provided the second chain.head() (read for the log line) succeeds; when it
\* fails needs_syncing returns that error.
C2_ExitHysteresis ==
    NsEntered(TRUE) =>
        /\ call.peer.total_difficulty > call.head1.v =>
              ret.res = NsOk(TRUE, call.peer.height, call.peer.total_difficulty)
        /\ (call.peer.total_difficulty <= call.head1.v /\ call.head2.ok) =>
              ret.res = NsOk(FALSE, call.peer.height, call.peer.total_difficulty)
        /\ (call.peer.total_difficulty <= call.head1.v /\ ~call.head2.ok) =>
              ~ret.res.ok

\* C2 witness: syncing, the peer ahead by less than the five-block threshold:
\* still syncing
C2_Witness ==
    /\ NsEntered(TRUE)
    /\ call.diff_iter.ok
    /\ call.peer.total_difficulty > call.head1.v
    /\ call.peer.total_difficulty < call.head1.v + SumFirst(call.diff_iter.v, 5)
    /\ ret.res.ok
    /\ ret.res.is_syncing

-----------------------------------------------------------------------------
(* Properties of the sync thread, under Spec and FairSpec *)

\* the six statuses of txhashset work
SixPhases ==
    {"TxHashsetDownload", "TxHashsetSetup", "TxHashsetRangeProofsValidation",
     "TxHashsetKernelsValidation", "TxHashsetSave", "TxHashsetDone"}

\* no delegate was invoked in the iteration
NoDelegate ==
    /\ it.header_sync = "none"
    /\ it.body_sync = "none"
    /\ ~it.state_sync
    /\ pc \notin {"hsync", "body", "state"}

\* the iteration is over and the loop is back at its top (from where only the
\* stop flag ends it)
BackAtTop ==
    /\ pc \in {"loop", "done"}
    /\ pc = "done" => stop_state

\* C3: once the stop flag is set (it stays set), the sync thread eventually
\* terminates, wherever it is: in the peer wait or anywhere in the main loop.
C3_Cancellation == stop_state ~> (pc = "done")

\* C3 witness: stopped and terminated in the middle of state sync, that is
\* out of the main loop after its delegates had run
C3_Witness ==
    /\ pc = "done"
    /\ stop_state
    /\ sync_status = "TxHashsetKernelsValidation"

\* C4: an absent answer of try_header_head is retried after a 1 s sleep with no
\* error surfaced for the first 60 consecutive absent answers; at the 61st,
\* outside the txhashset phases, the diagnostic error is surfaced, no delegate
\* is invoked in that iteration and the loop continues from its top.
C4_HeaderLockBackoff ==
    it.lock = "absent" =>
        /\ NoDelegate
        /\ BackAtTop
        /\ absent_run <= 60 =>
              /\ it.error = "none"
              /\ it.slept = <<10, 1000>>
        /\ (absent_run = 61 /\ sync_status \notin SixPhases) =>
              it.error = "header_lock"

\* C4 witness: the 61st consecutive absent answer outside the txhashset phases
C4_Witness ==
    /\ it.lock = "absent"
    /\ absent_run = 61
    /\ sync_status \notin SixPhases
    /\ it.error = "header_lock"
    /\ pc = "loop"

\* C5: in a txhashset phase an absent answer of try_header_head is followed by
\* a 1 s sleep and a retry, and the header-lock diagnostic is never surfaced,
\* however many absent answers came before.
C5_TxHashsetUnbounded ==
    (it.lock = "absent" /\ sync_status \in SixPhases) =>
        /\ it.error = "none"
        /\ it.slept = <<10, 1000>>
        /\ NoDelegate
        /\ BackAtTop

\* C5 witness: beyond the 61st consecutive absent answer, in the last phase
C5_Witness ==
    /\ it.lock = "absent"
    /\ absent_run = MaxAbsentRun
    /\ sync_status = "TxHashsetDone"
    /\ it.error = "none"

\* C6: header_block_counter is in 0..60; it is the number of consecutive absent
\* answers up to 60 (one more per absent answer while below 60), it is 0 once
\* the header head is obtained, and HeaderSync.check_run runs in that iteration.
C6_HeaderBlockCounter ==
    /\ header_block_counter \in 0..60
    /\ header_block_counter = IF absent_run < 60 THEN absent_run ELSE 60
    /\ it.lock = "some" =>
          /\ header_block_counter = 0
          /\ pc = "hsync" \/ it.header_sync # "none"

\* C6 witness: 59 consecutive absent answers, the counter reads 59
C6_Witness ==
    /\ it.lock = "absent"
    /\ absent_run = 59
    /\ header_block_counter = 59

C8_BodySyncGated ==
    /\ (it.lock = "some" /\ it.txhashset # "yes" /\ it.header_head < highest_height) =>
          /\ it.body_sync = "none"
          /\ ~it.state_sync
          /\ pc \notin {"body", "state"}
    /\ (it.body_sync # "none" \/ pc = "body") => it.header_head >= highest_height

\* C8 witness: header sync succeeded, headers behind, the iteration is over
C8_Witness ==
    /\ it.header_sync = "ok"
    /\ it.txhashset = "no"
    /\ it.header_head < highest_height
    /\ pc = "loop"

\* C9 as stated: whenever the check_run of HeaderSync or BodySync reports an
\* error, it is logged, the thread sleeps 1 s and continues the loop.
C9_AsStated ==
    (it.header_sync = "err" \/ it.body_sync = "err") =>
        /\ it.error # "none"
        /\ it.slept = <<10, 1000>>
        /\ BackAtTop

\* C9 amended: an error of HeaderSync.check_run is logged, followed by a 1 s
\* sleep, and the loop continues; an error of BodySync.check_run is logged and
\* the loop continues at once, without the sleep; neither terminates the thread.
C9_DelegateErrors ==
    /\ it.header_sync = "err" =>
          /\ it.error = "header_sync"
          /\ it.slept = <<10, 1000>>
          /\ it.body_sync = "none" /\ ~it.state_sync
          /\ BackAtTop
    /\ it.body_sync = "err" =>
          /\ it.error = "body_sync"
          /\ it.slept = <<10>>
          /\ ~it.state_sync
          /\ BackAtTop

\* C9 witness: both kinds of iteration are over; this one is the body sync error
C9_Witness ==
    /\ it.body_sync = "err"
    /\ it.slept = <<10>>
    /\ pc = "loop"

\* C10: an iteration that started syncing and in which needs_syncing returned
\* false leaves the status NoSync and calls chain.compact() exactly once; an
\* iteration that follows a no-sync iteration starts not syncing, and a
\* no-sync iteration that started not syncing does not call compact().
C10_LeavingSync ==
    /\ [](/\ (it.needs = "false" /\ it.currently_syncing) =>
               (sync_status = "NoSync" /\ it.compacts = 1)
          /\ (it.needs = "false" /\ ~it.currently_syncing) =>
               (sync_status = "NoSync" /\ it.compacts = 0)
          /\ it.needs = "false" => (NoDelegate /\ BackAtTop))
    /\ [][(it.needs = "false" /\ pc = "loop" /\ pc' = "needs") =>
             ~it'.currently_syncing]_vars

\* C10 witness: cold start (needs_syncing has never returned true, so no
\* delegate has touched the AwaitingPeers status), the peers not ahead: NoSync
\* and one compaction
C10_Witness ==
    /\ it.needs = "false"
    /\ it.currently_syncing
    /\ try_smart_sync
    /\ sync_status = "NoSync"
    /\ it.compacts = 1
    /\ it.error = "none"

\* a delegate was invoked in the iteration, or is about to be
Delegated ==
    \/ it.header_sync # "none"
    \/ it.body_sync # "none"
    \/ it.state_sync
    \/ pc \in {"hsync", "body", "state"}

\* the stop flag is set and the main loop has entered no iteration yet
StoppedBeforeLoop ==
    /\ stop_state
    /\ it = ItNone
    /\ pc \in {"start", "wait", "polled", "loop", "done"}

\* C11: a delegate check_run is invoked only in an iteration that was entered
\* with the stop flag clear, in which needs_syncing returned true, chain.head()
\* succeeded and try_header_head returned a header head. When the stop flag is
\* set during the peer wait no iteration is ever entered: the thread goes from
\* the wait to the top of the loop and out, and no delegate is ever invoked.
C11_DelegatesOnlyWhenSyncing ==
    /\ [](/\ Delegated =>
               /\ it.needs = "true"
               /\ it.head >= 0
               /\ it.lock = "some"
               /\ it.header_head >= 0
          /\ pc \in {"start", "wait", "polled"} => it = ItNone)
    /\ [][(pc # "needs" /\ pc' = "needs") => (pc = "loop" /\ ~stop_state)]_vars
    /\ [][StoppedBeforeLoop => StoppedBeforeLoop']_vars

\* C11 witness: all three delegates ran in one iteration that was entered
\* before the stop flag was set
C11_Witness ==
    /\ it.header_sync = "ok"
    /\ it.body_sync = "true"
    /\ it.state_sync
    /\ it.needs = "true"
    /\ it.lock = "some"
    /\ stop_state
    /\ pc = "loop"

\* C12: when most_work_peer() returns no peer, needs_syncing returns
\* (false, 0, 0) whatever the status and the local difficulty, and the
\* iteration leaves highest_height as it was: it invokes no delegate, tries no
\* smart sync and goes back to the top of the loop.
C12_NoPeerPolicy ==
    /\ [](/\ \A is_syncing \in BOOLEAN, head1 \in HeadResults \ {Err},
                head2 \in {Err, Ok(0)},
                diff_iter \in DiffIters(LoopBlockDiffs, MaxLoopIterLen) :
                NeedsSyncing(is_syncing, head1, NoPeer, head2, diff_iter) =
                    NsOk(FALSE, 0, 0)
          /\ it.most_work = "no_peer" =>
                /\ it.needs = "false"
                /\ it.smart = "none"
                /\ NoDelegate
                /\ BackAtTop)
    /\ [][it'.most_work = "no_peer" => highest_height' = highest_height]_vars

\* C12 witness: a height was seen before, the node is syncing, and the peers
\* are gone: the iteration ends in NoSync with highest_height kept
C12_Witness ==
    /\ it.most_work = "no_peer"
    /\ it.currently_syncing
    /\ it.needs = "false"
    /\ highest_height > 0
    /\ sync_status = "NoSync"
    /\ pc = "loop"

-----------------------------------------------------------------------------
(* Properties of the peer wait, under Spec *)

\* the thread has polled the peer set and counted wp peers, wp in S
Polled(S) ==
    /\ pc = "polled"
    /\ w.wp.ok
    /\ w.wp.v \in S

\* what the thread does after the poll: it leaves the wait, or it sleeps one
\* second, counts it and polls again
LeavesWait == pc' = "loop" /\ w' = WaitOver
SleepsOn == pc' = "wait" /\ w'.n = w.n + 1

-----------------------------------------------------------------------------
(* Properties of smart sync, under Spec *)

\* C15: smart_sync is called at most once in a run of the thread. It is
\* called only while try_smart_sync is set, the flag is cleared by the attempt
\* whatever its outcome, and once cleared it stays cleared: no later iteration
\* calls smart_sync or sends a ping, also when the node has left syncing and
\* entered it again.
C15_SmartSyncOnce ==
    /\ []((pc = "smart" \/ it.smart # "none" \/ it.smart_call.called)
             => ~try_smart_sync)
    /\ [][(pc # "smart" /\ pc' = "smart") => (pc = "needs" /\ try_smart_sync)]_vars
    /\ [][~try_smart_sync => ~try_smart_sync']_vars
    /\ [][(it'.smart # "none" /\ it'.smart # it.smart) => pc = "smart"]_vars
    /\ [][(it'.pings # <<>> /\ it'.pings # it.pings) => pc = "smart"]_vars

\* C15 witness: smart sync failed earlier, the node left syncing and now
\* enters it again: standard sync goes on without another attempt
C15_Witness ==
    /\ pc = "sync"
    /\ it.needs = "true"
    /\ ~it.currently_syncing
    /\ it.most_work = "peer"
    /\ it.smart = "none"
    /\ it.pings = <<>>
    /\ ~try_smart_sync

\* the pings of the sequence that went to address a
PingsTo(pings, a) == Cardinality({i \in 1..Len(pings) : pings[i].to = a})

\* the entries of the preferred list that name address a
EntriesOf(peers_preferred, a) ==
    IF peers_preferred.some
    THEN Cardinality({i \in 1..Len(peers_preferred.v) : peers_preferred.v[i] = a})
    ELSE 0

\* smart_sync returns in this step
SmartSyncReturns == pc = "smart" /\ pc' # pc

\* every ping carries the difficulty smart_sync was called with, at height 0;
\* without a ping the result is the error, which is dropped: the iteration
\* goes on to standard sync with no error logged by the loop and no sleep
PingsCarryDifficulty ==
    /\ \A i \in 1..Len(it'.pings) :
          /\ it'.pings[i].total_difficulty = it.smart_call.most_work_difficulty
          /\ it'.pings[i].height = 0
    /\ it'.smart = IF it'.pings = <<>> THEN "err" ELSE "ok"
    /\ pc' = "sync"
    /\ it'.error = "none"
    /\ it'.slept = it.slept

\* C16 as stated: smart_sync sends exactly one ping to each preferred address
\* that is a connected peer and none to any other; every ping carries the
\* observed maximum difficulty; with no list or no preferred peer connected no
\* ping is sent, the error is ignored and the iteration goes on.
C16_AsStated ==
    [][SmartSyncReturns =>
         /\ \A a \in Addrs :
               PingsTo(it'.pings, a) =
                  IF EntriesOf(it.smart_call.peers_preferred, a) > 0
                     /\ a \in it.smart_call.connected
                  THEN 1 ELSE 0
         /\ PingsCarryDifficulty]_vars

\* C16 amended: smart_sync sends one ping for each entry of the preferred list
\* whose address is a connected peer (an address listed twice is pinged
\* twice) and none to any other peer; the rest as stated.
C16_SmartSyncPings ==
    /\ [][SmartSyncReturns =>
            /\ \A a \in Addrs :
                  PingsTo(it'.pings, a) =
                     IF a \in it.smart_call.connected
                     THEN EntriesOf(it.smart_call.peers_preferred, a) ELSE 0
            /\ PingsCarryDifficulty]_vars
    /\ [](pc = "smart" =>
             /\ it.smart_call.called
             /\ it.smart_call.most_work_difficulty > 0
             /\ it.needs = "true"
             /\ it.pings = <<>>)

\* C16 witness: two preferred addresses, both peers connected, the call of
\* smart_sync under way with the difficulty of a peer ahead by 2
C16_Witness ==
    /\ pc = "smart"
    /\ it.smart_call.peers_preferred = [some |-> TRUE, v |-> <<"a1", "a2">>]
    /\ it.smart_call.connected = {"a1", "a2"}
    /\ it.smart_call.most_work_difficulty = 2

-----------------------------------------------------------------------------
(* Properties of the emission schedule, under SpecEmission *)

\* calc_mwc_block_overage has returned for the height of the call
EmissionReturned == ret # NoRet /\ ret.done

\* the first height after the MIMBLE_GROUPS_NUM groups, less one
LastRewarded(floonet) == MIMBLE_GROUPS_NUM * BlocksPerGroup(floonet)

C18_SumOfSubsidies ==
    /\ EmissionReturned =>
          /\ ret.overage = Add(ret.base, ret.sum)
          /\ call.start = 0 =>
                ret.base = IF call.genesis_had_reward
                           THEN Amount(<<44, 100, 0>>)
                           ELSE <<>>
    /\ ret # NoRet => Less(ret.overage, TwoTo64)

C18_Witness ==
    /\ EmissionReturned
    /\ call.floonet
    /\ ~call.genesis_had_reward
    /\ call.start = 0
    /\ call.height > 3 * BlocksPerGroup(TRUE)
    /\ ret.x = 3
    /\ ret.sum # <<>>
    /\ ret.overage = ret.sum

C20_AsStated ==
    (ret # NoRet /\ call.height >= LastRewarded(call.floonet))
        => ret.reward = <<>>

\* C20: calc_mwc_block_reward is 0 at every height 32 * E + n with n >= 1; at
\* the height 32 * E, the last block of group 31, it is 2.
C20_EndOfEmission ==
    ret # NoRet =>
        /\ call.height > LastRewarded(call.floonet) => ret.reward = <<>>
        /\ call.height = LastRewarded(call.floonet) => ret.reward = Amount(<<2>>)

C20_Witness ==
    /\ ret # NoRet
    /\ call.height = LastRewarded(call.floonet) + 1
    /\ ret.reward = <<>>

\* C34: on mainnet, with the genesis reward counted, the value that
\* calc_mwc_block_overage returns at a height is never below the one it
\* returns at the height before and never above 21,000,000 * 10^9; and in its
\* loop every product min(block_count, blocks_per_group) * reward and every
\* value of overage stays at or below 21,000,000 * 10^9, inside the u64 range.
C34_SupplyCap ==
    (ret # NoRet /\ ~call.floonet /\ call.genesis_had_reward) =>
        /\ ~Less(Amount(<<21, 0, 0, 0, 0, 0>>), ret.overage)
        /\ Less(Amount(<<21, 0, 0, 0, 0, 0>>), TwoTo64)
        /\ ~ret.done =>
              ~Less(Amount(<<21, 0, 0, 0, 0, 0>>),
                    Add(ret.overage,
                        OverageCredit(ret.x, ret.block_count, call.floonet)))
        /\ (ret.done /\ call.height > call.start) =>
              ~Less(ret.overage, ret.prev)

C34_Witness ==
    /\ ret # NoRet
    /\ ret.done
    /\ ~call.floonet
    /\ call.genesis_had_reward
    /\ call.height = 31 * 2100000 + 1
    /\ call.start = 31 * 2100000 - 2
    /\ ret.x = 31
    /\ Less(ret.prev, ret.overage)
    /\ Less(ret.overage, Amount(<<21, 0, 0, 0, 0, 0>>))

-----------------------------------------------------------------------------
(* Properties of reward, under SpecReward *)

\* C21: reward(fee, h) is calc_mwc_block_reward(h) + fee when fee is at most
\* u64::MAX - calc_mwc_block_reward(h), and u64::MAX otherwise; it always
\* returns, with a value in the u64 range.
C21_BlockReward ==
    ret # NoRet =>
        LET r == CalcMwcBlockReward(call.height, call.floonet)
        IN  /\ ret.done
            /\ Less(ret.reward, TwoTo64)
            /\ ret.reward = IF ~Less(Sub(U64Max, r), call.fee)
                            THEN Add(r, call.fee)
                            ELSE U64Max

C21_Witness ==
    /\ ret # NoRet
    /\ call.height = 1
    /\ call.fee # U64Max
    /\ Less(Sub(U64Max, MIMBLE_FIRST_GROUP_REWARD), call.fee)
    /\ ret.reward = U64Max

-----------------------------------------------------------------------------
(* Properties of graph_weight and the unit difficulty, under SpecWeight *)

\* C28: graph_weight(height, edge_bits) is (2 << (edge_bits - 24)) * edge_bits
\* for edge_bits 29, 30 and 31 (64 * 29 at 29, 256 * 31 at 31) and 1 for every
\* edge_bits from 32 on, whatever the height.
C28_GraphWeight ==
    ret # NoRet =>
        /\ call.edge_bits \in {29, 30, 31} =>
              ret.weight = (2 * 2^(call.edge_bits - 24)) * call.edge_bits
        /\ call.edge_bits = 29 => ret.weight = 64 * 29
        /\ call.edge_bits = 31 => ret.weight = 256 * 31
        /\ call.edge_bits >= 32 => ret.weight = 1
        /\ \A h \in WeightHeights : GraphWeight(h, call.edge_bits) = ret.weight

C28_Witness ==
    /\ ret # NoRet
    /\ call.height = YEAR_HEIGHT
    /\ call.edge_bits = 32
    /\ ret.weight = 1

\* C29 as stated: UNIT_DIFFICULTY is 32 * 29 = 928, the graph weight of
\* SECOND_POW_EDGE_BITS at every height, and INITIAL_DIFFICULTY is
\* 1,000,000 times it.
C29_AsStated ==
    (ret # NoRet /\ call.edge_bits = SECOND_POW_EDGE_BITS) =>
        /\ UNIT_DIFFICULTY = 32 * 29
        /\ UNIT_DIFFICULTY = 928
        /\ ret.weight = UNIT_DIFFICULTY
        /\ INITIAL_DIFFICULTY = 1000000 * UNIT_DIFFICULTY

\* C29: UNIT_DIFFICULTY is (2 << (29 - 24)) * 29 = 64 * 29 = 1856, the graph
\* weight of SECOND_POW_EDGE_BITS at every height and the secondary scaling of
\* the mainnet genesis block; INITIAL_DIFFICULTY is 1,000,000 times it.
C29_UnitDifficulty ==
    (ret # NoRet /\ call.edge_bits = SECOND_POW_EDGE_BITS) =>
        /\ UNIT_DIFFICULTY = 64 * 29
        /\ UNIT_DIFFICULTY = 1856
        /\ ret.weight = UNIT_DIFFICULTY
        /\ GenesisMainPow.secondary_scaling = UNIT_DIFFICULTY
        /\ INITIAL_DIFFICULTY = 1000000 * UNIT_DIFFICULTY
        /\ INITIAL_DIFFICULTY = 1856000000

C29_Witness ==
    /\ ret # NoRet
    /\ call.height = 0
    /\ call.edge_bits = SECOND_POW_EDGE_BITS
    /\ ret.weight = 1856

-----------------------------------------------------------------------------
(* Properties of secondary_pow_ratio, under SpecRatio *)

\* C30: secondary_pow_ratio(h) is max(0, 90 - h / 11648) with the quotient
\* truncated; it lies in 0..90, never grows with the height, is 90 at height 0
\* and 0 at every height from 1,048,320 on.
C30_SecondaryPowRatio ==
    ret # NoRet =>
        LET h == call.height
            q == h \div 11648
        IN  /\ ret.ratio = IF 90 - q > 0 THEN 90 - q ELSE 0
            /\ ret.ratio \in 0..90
            /\ ret.ratio <= ret.prev
            /\ \A s \in RatioStarts :
                  /\ s >= h => SecondaryPowRatio(s) <= ret.ratio
                  /\ s <= h => SecondaryPowRatio(s) >= ret.ratio
            /\ h = 0 => ret.ratio = 90
            /\ h >= 1048320 => ret.ratio = 0

C30_Witness ==
    /\ ret # NoRet
    /\ call.height = 1048320
    /\ ret.ratio = 0
    /\ ret.prev = 1

-----------------------------------------------------------------------------
(* Properties of next_difficulty, under SpecDifficulty *)

\* the sum of the difficulties of the newest 60 records, as a number
DifficultySum(diff_data) ==
    SumRange([i \in 1..60 |-> diff_data[i + 1].difficulty], 1, 60)

\* max(3, S * 60 / clamp(damp(span, 3600, 3), 3600, 2)), as numbers
RetargetFormula(S, span) ==
    LET damped == Div(Add(span, AmountOf(2 * 3600)), 3)
        clamped == MaxA(AmountOf(1800), MinA(damped, AmountOf(7200)))
    IN  MaxA(AmountOf(3), Div(Mul(60, S), ToNat(clamped)))

\* no step of next_difficulty leaves the u64 range: the newest timestamp is
\* not before the oldest, the span plus 7200 and the difficulty sum times 60
\* are at most u64::MAX
InU64Range(diff_data) ==
    /\ Ordered(diff_data)
    /\ Less(Add(SpanOf(diff_data), AmountOf(7200)), TwoTo64)
    /\ Less(Mul(60, DifficultySum(diff_data)), TwoTo64)

\* C22 as stated: for every window of 61 records whose newest timestamp is not
\* before the oldest, next_difficulty returns the difficulty
\* max(3, S * 60 / clamp(damp(span, 3600, 3), 3600, 2)).
C22_AsStated ==
    (ret # NoRet /\ Ordered(call.diff_data)) =>
        /\ ~ret.res.panicked
        /\ ret.res.info.difficulty =
              RetargetFormula(DifficultySum(call.diff_data), SpanOf(call.diff_data))

\* C22: for every window of 61 records whose newest timestamp is not before
\* the oldest, whose span is at most u64::MAX - 7200 and whose difficulty sum S
\* over the newest 60 records is at most u64::MAX / 60, next_difficulty returns
\* the difficulty max(3, S * 60 / clamp(damp(span, 3600, 3), 3600, 2)).
C22_NextDifficultyFormula ==
    (ret # NoRet /\ InU64Range(call.diff_data)) =>
        /\ ~ret.res.panicked
        /\ ret.res.info.difficulty =
              RetargetFormula(DifficultySum(call.diff_data), SpanOf(call.diff_data))

C22_Witness ==
    /\ ret # NoRet
    /\ InU64Range(call.diff_data)
    /\ SpanOf(call.diff_data) = AmountOf(14401)
    /\ DifficultySum(call.diff_data) = Mul(60, AmountOf(INITIAL_DIFFICULTY))
    /\ ret.res.info.difficulty = Div(Mul(60, AmountOf(INITIAL_DIFFICULTY)), 120)

\* C23: whenever next_difficulty returns, the difficulty it returns is at
\* least MIN_DIFFICULTY = 3, also for a difficulty sum of 0 and for a span at
\* the upper clamp.
C23_DifficultyFloor ==
    (ret # NoRet /\ ~ret.res.panicked) =>
        ~Less(ret.res.info.difficulty, AmountOf(3))

C23_Witness ==
    /\ ret # NoRet
    /\ ~ret.res.panicked
    /\ DifficultySum(call.diff_data) = <<>>
    /\ Ordered(call.diff_data)
    /\ SpanOf(call.diff_data) = AmountOf(28800)
    /\ ret.res.info.difficulty = AmountOf(3)

\* next_difficulty returned for the span prev.ts_delta and then, on the same
\* difficulties, for the shorter span of the window of the call
TwoSpans ==
    /\ ret # NoRet
    /\ ret.prev.some
    /\ ~ret.res.panicked
    /\ ~ret.prev.res.panicked

\* C26 as stated: for two windows of the same difficulties, the difficulty
\* returned for the span t / 2 is at most twice the one returned for t, and
\* the difficulty returned for a shorter span is never the smaller one.
C26_AsStated ==
    TwoSpans =>
        /\ SpanOf(call.diff_data) = Div(ret.prev.ts_delta, 2) =>
              ~Less(Mul(2, ret.prev.res.info.difficulty), ret.res.info.difficulty)
        /\ ~Less(ret.res.info.difficulty, ret.prev.res.info.difficulty)

\* C26: for two windows of the same difficulties, the difficulty returned for
\* the span t / 2 is at most twice the one returned for t; and when t is at
\* most u64::MAX - 7200, the difficulty returned for a shorter span is never
\* the smaller one.
C26_RetargetMonotone ==
    TwoSpans =>
        /\ SpanOf(call.diff_data) = Div(ret.prev.ts_delta, 2) =>
              ~Less(Mul(2, ret.prev.res.info.difficulty), ret.res.info.difficulty)
        /\ Less(Add(ret.prev.ts_delta, AmountOf(7200)), TwoTo64) =>
              ~Less(ret.res.info.difficulty, ret.prev.res.info.difficulty)

C26_Witness ==
    /\ TwoSpans
    /\ ret.prev.ts_delta = AmountOf(3600)
    /\ SpanOf(call.diff_data) = AmountOf(1800)
    /\ Less(ret.prev.res.info.difficulty, ret.res.info.difficulty)
    /\ Less(AmountOf(3), ret.prev.res.info.difficulty)

\* C27 as stated: whatever the timestamps and difficulties of the window,
\* next_difficulty returns a HeaderInfo.
C27_AsStated ==
    ret # NoRet => ~ret.res.panicked

\* C27: next_difficulty returns a HeaderInfo for every window whose newest
\* timestamp is not before the oldest, whose span is at most u64::MAX - 7200
\* and whose difficulty sum is at most u64::MAX / 60; for any other window a
\* build with overflow checks panics, and a build without them returns a
\* HeaderInfo computed from the wrapped values.
C27_Totality ==
    ret # NoRet =>
        (ret.res.panicked <=>
            (call.overflow_checks /\ ~InU64Range(call.diff_data)))

C27_Witness ==
    /\ ret # NoRet
    /\ call.overflow_checks
    /\ ~Ordered(call.diff_data)
    /\ ret.res.panicked

\* the newest 60 records of the window all carry the difficulty d
Uniform(diff_data, d) ==
    \A i \in 2..61 : diff_data[i].difficulty = d

\* the returned difficulty is between S / 120 and max(3, S / 30), the
\* quotients truncated, S the difficulty sum of the newest 60 records
WithinFactorTwo(diff_data, difficulty) ==
    LET S == DifficultySum(diff_data)
    IN  /\ ~Less(difficulty, Div(S, 120))
        /\ ~Less(MaxA(AmountOf(3), Div(S, 30)), difficulty)

\* C35 as stated: when the newest 60 records all carry the same difficulty
\* d >= 3 and the span of the window is 3600 s, next_difficulty returns the
\* difficulty d; and for every window the difficulty it returns is between
\* (S / 60) / 2 and 2 * (S / 60), up to truncation and the floor of 3.
C35_AsStated ==
    ret # NoRet =>
        /\ (/\ Ordered(call.diff_data)
            /\ SpanOf(call.diff_data) = AmountOf(3600)
            /\ Uniform(call.diff_data, call.diff_data[2].difficulty)
            /\ ~Less(call.diff_data[2].difficulty, AmountOf(3)))
              => (/\ ~ret.res.panicked
                  /\ ret.res.info.difficulty = call.diff_data[2].difficulty)
        /\ ~ret.res.panicked =>
              WithinFactorTwo(call.diff_data, ret.res.info.difficulty)

\* C35: when the newest 60 records all carry the same difficulty d with
\* 3 <= d <= u64::MAX / 3600 and the span of the window is 3600 s,
\* next_difficulty returns the difficulty d; and for every window whose
\* difficulty sum S is at most u64::MAX / 60, whenever next_difficulty returns,
\* the difficulty it returns is between S / 120 and max(3, S / 30), the
\* quotients truncated.
C35_RetargetFixedPoint ==
    ret # NoRet =>
        /\ (/\ Ordered(call.diff_data)
            /\ SpanOf(call.diff_data) = AmountOf(3600)
            /\ Uniform(call.diff_data, call.diff_data[2].difficulty)
            /\ ~Less(call.diff_data[2].difficulty, AmountOf(3))
            /\ ~Less(Div(U64Max, 3600), call.diff_data[2].difficulty))
              => (/\ ~ret.res.panicked
                  /\ ret.res.info.difficulty = call.diff_data[2].difficulty)
        /\ (/\ ~ret.res.panicked
            /\ Less(Mul(60, DifficultySum(call.diff_data)), TwoTo64))
              => WithinFactorTwo(call.diff_data, ret.res.info.difficulty)

C35_Witness ==
    /\ ret # NoRet
    /\ Ordered(call.diff_data)
    /\ SpanOf(call.diff_data) = AmountOf(3600)
    /\ Uniform(call.diff_data, Div(U64Max, 3600))
    /\ ~ret.res.panicked
    /\ ret.res.info.difficulty = Div(U64Max, 3600)

-----------------------------------------------------------------------------
(* Properties of secondary_pow_scaling, under SpecScaling *)

\* max(13, sum * ratio / max(1, clamp(damp(100 * count, 60 * ratio, 13),
\* 60 * ratio, 2))) over the records of diff_data, as numbers
ScalingFormula(height, diff_data) ==
    LET sum == SumRange([i \in 1..Len(diff_data) |-> diff_data[i].secondary_scaling],
                        1, Len(diff_data))
        count == Cardinality({i \in 1..Len(diff_data) : diff_data[i].is_secondary})
        q == height \div 11648
        ratio == IF q < 90 THEN 90 - q ELSE 0
        goal == 60 * ratio
        damped == (100 * count + 12 * goal) \div 13
        capped == IF damped < goal * 2 THEN damped ELSE goal * 2
        clamped == IF capped < goal \div 2 THEN goal \div 2 ELSE capped
    IN  MaxA(AmountOf(13),
             Div(Mul(ratio, sum), IF clamped < 1 THEN 1 ELSE clamped))

\* C24 as stated: for every height and every window of records with arbitrary
\* u32 secondary_scaling fields, the secondary_scaling that
\* secondary_pow_scaling returns is at least MIN_AR_SCALE = 13.
C24_AsStated ==
    ret # NoRet => ~Less(ret.scaling, AmountOf(13))

C36_PhaseOut ==
    (ret # NoRet /\ call.height >= 1048320) =>
        /\ ret.scaling = AmountOf(13)
        /\ ret.divisor = 1

C36_Witness ==
    /\ ret # NoRet
    /\ call.height = 1048320
    /\ ArCount(call.height, call.diff_data) = 6000
    /\ \A i \in 1..60 : call.diff_data[i].secondary_scaling = U32Max
    /\ ret.scaling = AmountOf(13)

-----------------------------------------------------------------------------
(* Stage order and status writes of the sync thread, under Spec *)

\* the delegates called so far in the iteration, in order
Delegates == [i \in 1..Len(it.calls) |-> it.calls[i].delegate]

\* C31: in every iteration the check_run calls are HeaderSync alone, or
\* HeaderSync then BodySync, or HeaderSync then StateSync, or all three in
\* that order, each at most once; BodySync and StateSync are called only after
\* HeaderSync.check_run returned Ok; and every call is handed the head, tail
\* and header_head that the iteration read before its first call.
C31_StageOrdering ==
    /\ Delegates \in {<<>>, <<"header_sync">>,
                      <<"header_sync", "body_sync">>,
                      <<"header_sync", "state_sync">>,
                      <<"header_sync", "body_sync", "state_sync">>}
    /\ Len(it.calls) >= 2 => it.header_sync = "ok"
    /\ Len(it.calls) >= 1 =>
          /\ it.lock = "some"
          /\ it.head \in Heights /\ it.tail \in Heights
          /\ it.header_head \in Heights
    /\ \A i \in 1..Len(it.calls) :
          LET c == it.calls[i]
          IN  /\ c.delegate = "header_sync" =>
                    c.header_head = it.header_head
              /\ c.delegate = "body_sync" => c.head = it.head
              /\ c.delegate = "state_sync" =>
                    /\ c.header_head = it.header_head
                    /\ c.head = it.head
                    /\ c.tail = it.tail

C31_Witness ==
    /\ Delegates = <<"header_sync", "body_sync", "state_sync">>
    /\ it.header_sync = "ok"
    /\ it.calls[3].head = 1
    /\ it.calls[3].tail = 0
    /\ it.calls[3].header_head = 1

\* C32: a step of the sync thread changes the status only when it is a
\* delegate's check_run, or when it is the step in which needs_syncing returned
\* false in an iteration that started syncing, and then the status becomes
\* NoSync; the peer wait, needs_syncing, smart sync, the reads of the heads and
\* the header-lock backoff leave the status as it is.
C32_StatusWrites ==
    [][sync_status' # sync_status =>
          \/ pc \in {"hsync", "body", "state"}
          \/ /\ pc = "needs"
             /\ it.currently_syncing
             /\ it'.needs = "false"
             /\ sync_status' = "NoSync"]_vars

\* the loop wrote NoSync in an iteration that started syncing, after an
\* earlier iteration had needed syncing and a peer was asked
C32_Witness ==
    /\ it.needs = "false"
    /\ it.currently_syncing
    /\ ~try_smart_sync
    /\ sync_status = "NoSync"
    /\ it.most_work = "peer"
    /\ pc = "loop"

\* C33: when chain.compact() fails, in a no-sync iteration that started
\* syncing, the status is already NoSync, compact() was called once, and the
\* thread sleeps 1 s and is back at the top of the loop; the iteration after it
\* starts not syncing; an iteration calls compact() only if is_syncing() was
\* true at its start, which it read from the status; and the status leaves
\* NoSync only in a delegate's check_run. So compact() is not called again
\* before a delegate has set a syncing status.
C33_FailedCompaction ==
    /\ [](/\ it.error = "compact" =>
               /\ it.needs = "false"
               /\ it.currently_syncing
               /\ sync_status = "NoSync"
               /\ it.compacts = 1
               /\ it.slept = <<10, 1000>>
               /\ pc = "loop"
          /\ it.compacts > 0 => it.currently_syncing)
    /\ [][(it.error = "compact" /\ it' # it) =>
             (pc' = "done" \/ (~it'.currently_syncing /\ it'.compacts = 0))]_vars
    /\ [][(pc = "loop" /\ pc' = "needs") =>
             it'.currently_syncing = IsSyncing(sync_status)]_vars
    /\ [][(sync_status = "NoSync" /\ sync_status' # "NoSync") =>
             pc \in {"hsync", "body", "state"}]_vars

\* the compaction failed after the node had been syncing
C33_Witness ==
    /\ it.error = "compact"
    /\ it.compacts = 1
    /\ ~try_smart_sync
    /\ sync_status = "NoSync"
    /\ it.slept = <<10, 1000>>
    /\ pc = "loop"

====
